---- MODULE Spec2Model ----
(***************************************************************************)
(* Model of clipper's watch-folder pipeline (src/clipper/watcher.py):      *)
(* the watchdog event handler with its seen set, Watcher.start/stop/       *)
(* scan_inbox on the caller's thread, enqueueing (_on_new_file) from the   *)
(* observer thread and from the scan, and the lazily started worker        *)
(* (_maybe_start_processing / _process_queue / _process_job).              *)
(* Every step that can be interleaved with another thread is one action;   *)
(* statements executed while holding self._lock form one action.           *)
(*                                                                         *)
(* Two further specifications exercise the code the pipeline calls into    *)
(* (src/clipper/compress.py) on inputs of their own: ConventionSpec the    *)
(* filename convention (presets, special formats, trim points, output      *)
(* names), TranscodeSpec one call of compress / convert_to_gif /           *)
(* convert_to_loop with the progress lines of ffmpeg.  RaisingSpec is the  *)
(* pipeline with observer callbacks that may raise.  HandlerSpec is the    *)
(* event handler and the start-up scan on paths of any kind and name, and  *)
(* LockSpec the scheduler with the acquisition of self._lock as a step of  *)
(* its own.                                                                *)
(***************************************************************************)
EXTENDS Integers, Sequences, FiniteSets, TLC

\* ---------------------------------------------------------------- bounds
MaxJobs == 2      \* jobs created in one run
MaxPending == 1   \* events waiting to be dispatched
MaxWorkers == 2   \* worker threads alive at once
MaxSegs == 3      \* dash-separated parts after the base of a generated file name
MaxBatch == 3     \* files of one batch of arrivals
MaxChunks == 3    \* chunks of output the external process writes before it exits
MaxPipe == 2      \* chunks a pipe holds before a write to it blocks
MaxSeconds == 2   \* seconds of a duration, a trim point or an out_time_ms marker

\* ------------------------------------------------------------- constants
Paths == {"a.mp4"}

\* What a file holds: a container with a video stream, or with audio only.
Contents == {"video", "audio"}
Workers == 1..MaxWorkers
Threads == {"observer", "main"}

None == "None"

\* JobStatus (watcher.py 27-31)
QUEUED == "queued"
PROCESSING == "processing"
DONE == "done"
FAILED == "failed"
JobStatus == {QUEUED, PROCESSING, DONE, FAILED}

\* ------------------------------------------------------------- variables
VARIABLES
    inbox,        \* folders.inbox: what each name holds, None when there is no such file
    processingDir,\* folders.processing, likewise
    observer,     \* self._observer is a running Observer
    events,       \* events delivered by the OS, not yet dispatched to the handler
    seen,         \* VideoHandler._seen of the current handler
    stop_event,   \* self._stop_event.is_set()
    jobs,         \* self.jobs
    queue,        \* self._queue, as indices into jobs
    processing,   \* self._processing
    tpc,          \* position of the observer thread and of the caller's thread
    tpath,        \* the path each of them is handling
    tjob,         \* the job each of them created
    scanTodo,     \* paths scan_inbox still has to visit
    wpc,          \* position of each worker thread
    wjob,         \* the job each worker popped
    added,        \* jobs for which on_job_added was called
    notified,     \* calls of on_new_file in this session, per path and origin
    calls,        \* per job, the observer callbacks called with it, in order
    \* the filename convention
    fmt_order,    \* the order in which this process iterates SPECIAL_FORMATS
    config_default, \* config.presets.default
    arriving,     \* filenames still to be handed to _on_new_file
    cjobs,        \* the jobs _on_new_file made of them, and what _process_job ran
    time_str,     \* an argument of parse_time
    seconds,      \* what parse_time returned for it
    \* one transcode call
    tc_args,      \* mode, trim window, probed duration, exit codes of ffmpeg
    tc_pc,        \* position inside the call
    tc_progress,  \* job.progress, as set by on_progress
    tc_last_update, \* last_update is no longer 0
    tc_outcome,   \* what the call returned or raised
    tc_palette,   \* the scratch palette file of convert_to_gif exists
    \* the handler and the lock, seen step by step
    discarded,    \* per path, the events the handler dropped after its wait
    lock,         \* the thread that holds self._lock
    io            \* the external process of a transcode call and its two pipes

convVars == <<fmt_order, config_default, arriving, cjobs, time_str, seconds>>
transVars == <<tc_args, tc_pc, tc_progress, tc_last_update, tc_outcome, tc_palette>>
fineVars == <<discarded, lock, io>>
unitVars == <<convVars, transVars, fineVars>>

pipelineVars == <<inbox, processingDir, observer, events, seen, stop_event, jobs,
                  queue, processing, tpc, tpath, tjob, scanTodo, wpc, wjob, added,
                  notified, calls>>

vars == <<pipelineVars, unitVars>>

fsVars == <<inbox, processingDir>>
workerVars == <<wpc, wjob>>
threadVars == <<tpc, tpath, tjob>>

\* ------------------------------------------------------------- exceptions
\* str(e) of the exceptions the code catches (watcher.py 250).  StopIteration
\* is what next() raises in probe_video when no stream is a video stream
\* (compress.py 208); it carries no argument and its str() is empty.
ExcStr(e) ==
    CASE e = "StopIteration" -> ""
      [] e = "RuntimeError" -> "ffmpeg failed: stderr"
      [] e = "FileNotFoundError" -> "[Errno 2] No such file or directory"
      [] e = "PermissionError" -> "[Errno 13] Permission denied"
      [] e = "KeyError" -> "'streams'"
      [] OTHER -> e

\* Path.exists (watcher.py 91, 245) in a folder.
Exists(files, path) == files[path] # None

\* probe_video (compress.py 189-219) on a path, given the files that exist: a
\* VideoInfo, or the exception raised: KeyError when the output of ffprobe
\* lists no streams, as for a missing file, StopIteration from next() when no
\* stream is a video stream (compress.py 208).
probe_video(path, files) ==
    IF ~Exists(files, path) THEN "KeyError"
    ELSE IF files[path] = "audio" THEN "StopIteration"
    ELSE "VideoInfo"

\* Job(...) as constructed by _on_new_file (watcher.py 147-154), with the
\* dataclass defaults (watcher.py 34-45).
NewJob(path, info) ==
    [input_path |-> [dir |-> "inbox", name |-> path],
     status |-> QUEUED,
     progress |-> 0,
     result |-> None,
     error |-> None,
     info |-> info]

TypeOK ==
    /\ inbox \in [Paths -> Contents \cup {None}]
    /\ processingDir \in [Paths -> Contents \cup {None}]
    /\ observer \in BOOLEAN
    /\ seen \subseteq Paths
    /\ stop_event \in BOOLEAN
    /\ processing \in BOOLEAN
    /\ \A i \in 1..Len(jobs) : jobs[i].status \in JobStatus
    /\ \A i \in 1..Len(queue) : queue[i] \in 1..Len(jobs)

\* The variables of the convention and of the transcode call, at rest.
ConvIdle ==
    /\ fmt_order = <<>>
    /\ config_default = <<>>
    /\ arriving = <<>>
    /\ cjobs = <<>>
    /\ time_str = <<>>
    /\ seconds = <<>>

TransIdle ==
    /\ tc_args = <<>>
    /\ tc_pc = "idle"
    /\ tc_progress = <<0, 1>>
    /\ tc_last_update = FALSE
    /\ tc_outcome = <<>>
    /\ tc_palette = FALSE

FineIdle ==
    /\ discarded = <<>>
    /\ lock = <<>>
    /\ io = <<>>

\* Watcher.__init__ (watcher.py 111-129) on an inbox holding any files.  The
\* three callbacks are given, as the TUI gives them (tui.py 1232-1237).
PipelineInit ==
    /\ inbox \in [Paths -> Contents \cup {None}]
    /\ processingDir = [p \in Paths |-> None]
    /\ observer = FALSE
    /\ events = <<>>
    /\ seen = {}
    /\ stop_event = FALSE
    /\ jobs = <<>>
    /\ queue = <<>>
    /\ processing = FALSE
    /\ tpc = [t \in Threads |-> "idle"]
    /\ tpath = [t \in Threads |-> None]
    /\ tjob = [t \in Threads |-> 0]
    /\ scanTodo = {}
    /\ wpc = [w \in Workers |-> "dead"]
    /\ wjob = [w \in Workers |-> 0]
    /\ added = {}
    /\ notified = [p \in Paths |-> [event |-> 0, scan |-> 0]]
    /\ calls = [j \in 1..MaxJobs |-> <<>>]

\* The pipeline with nothing dropped in its inbox, for the specifications
\* that do not run it.
PipelineIdle ==
    /\ PipelineInit
    /\ inbox = [p \in Paths |-> None]

Init ==
    /\ PipelineInit
    /\ ConvIdle
    /\ TransIdle
    /\ FineIdle

\* ------------------------------------------------------------ environment
\* A file is created in, or moved into, the inbox; a running observer is sent
\* the created/moved event (watcher.py 95-101, 269).
Drop(p, c) ==
    /\ ~Exists(inbox, p)
    /\ observer => Len(events) < MaxPending
    /\ inbox' = [inbox EXCEPT ![p] = c]
    /\ events' = IF observer THEN Append(events, p) ELSE events
    /\ UNCHANGED <<processingDir, observer, seen, stop_event, jobs, queue,
                   processing, threadVars, scanTodo, workerVars, added, notified>>
    /\ UNCHANGED <<calls, unitVars>>

\* A file of the inbox is replaced in place (written elsewhere and moved over
\* it): the observer is sent another event for the same path.
Rewrite(p, c) ==
    /\ Exists(inbox, p)
    /\ observer
    /\ Len(events) < MaxPending
    /\ inbox' = [inbox EXCEPT ![p] = c]
    /\ events' = Append(events, p)
    /\ UNCHANGED <<processingDir, observer, seen, stop_event, jobs, queue, processing,
                   threadVars, scanTodo, workerVars, added, notified>>
    /\ UNCHANGED <<calls, unitVars>>

\* A file is taken out of the inbox by something other than the worker.
Remove(p) ==
    /\ Exists(inbox, p)
    /\ inbox' = [inbox EXCEPT ![p] = None]
    /\ UNCHANGED <<processingDir, observer, events, seen, stop_event, jobs, queue,
                   processing, threadVars, scanTodo, workerVars, added, notified>>
    /\ UNCHANGED <<calls, unitVars>>

\* The run is cut at MaxJobs jobs: _on_new_file is entered only while the jobs
\* created and being created are fewer.
CanEnqueue == Len(jobs) + Cardinality({t \in Threads : tpc[t] = "append"}) < MaxJobs

\* --------------------------------------------------- observer thread
\* VideoHandler._handle_file up to the sleep (watcher.py 84-90), entered from
\* on_created / on_moved (watcher.py 95-101).  Every path of the model has a
\* video extension.
HandleFile ==
    /\ observer
    /\ tpc["observer"] = "idle"
    /\ events # <<>>
    /\ events' = Tail(events)
    /\ IF Head(events) \in seen
          THEN UNCHANGED <<tpc, tpath>>
          ELSE /\ tpc' = [tpc EXCEPT !["observer"] = "sleep"]
               /\ tpath' = [tpath EXCEPT !["observer"] = Head(events)]
    /\ UNCHANGED <<fsVars, observer, seen, stop_event, jobs, queue, processing,
                   tjob, scanTodo, workerVars, added, notified>>
    /\ UNCHANGED <<calls, unitVars>>

\* HandleFileWake without the path recorded as seen.
HandleFileWakeNotRecorded ==
    /\ tpc["observer"] = "sleep"
    /\ Exists(inbox, tpath["observer"]) => CanEnqueue
    /\ IF Exists(inbox, tpath["observer"])
          THEN /\ tpc' = [tpc EXCEPT !["observer"] = "append"]
               /\ notified' = [notified EXCEPT ![tpath["observer"]].event = @ + 1]
               /\ UNCHANGED tpath
          ELSE /\ tpc' = [tpc EXCEPT !["observer"] = "idle"]
               /\ tpath' = [tpath EXCEPT !["observer"] = None]
               /\ UNCHANGED notified
    /\ UNCHANGED <<fsVars, observer, events, seen, stop_event, jobs, queue,
                   processing, tjob, scanTodo, workerVars, added>>
    /\ UNCHANGED <<calls, unitVars>>

\* VideoHandler._handle_file after the sleep (watcher.py 91-93): the path is
\* recorded as seen and on_new_file is called, if it still exists.
HandleFileWake ==
    /\ tpc["observer"] = "sleep"
    /\ Exists(inbox, tpath["observer"]) => CanEnqueue
    /\ IF Exists(inbox, tpath["observer"])
          THEN /\ seen' = seen \cup {tpath["observer"]}
               /\ tpc' = [tpc EXCEPT !["observer"] = "append"]
               /\ notified' = [notified EXCEPT ![tpath["observer"]].event = @ + 1]
               /\ UNCHANGED tpath
          ELSE /\ tpc' = [tpc EXCEPT !["observer"] = "idle"]
               /\ tpath' = [tpath EXCEPT !["observer"] = None]
               /\ UNCHANGED <<seen, notified>>
    /\ UNCHANGED <<fsVars, observer, events, stop_event, jobs, queue, processing,
                   tjob, scanTodo, workerVars, added>>
    /\ UNCHANGED <<calls, unitVars>>

\* ------------------------------------------------------ _on_new_file
\* Where thread t goes when _on_new_file returns: the observer thread back to
\* its dispatch loop, the caller's thread back to the loop of scan_inbox.
Return(t) == IF t = "observer" THEN "idle" ELSE "scan"

\* OnNewFileAppend with the job put at the head of the pending queue.
OnNewFileAppendAtHead(t) ==
    /\ tpc[t] = "append"
    /\ LET o == probe_video(tpath[t], inbox)
       IN jobs' = Append(jobs, NewJob(tpath[t], IF o = "VideoInfo" THEN o ELSE None))
    /\ queue' = <<Len(jobs) + 1>> \o queue
    /\ tjob' = [tjob EXCEPT ![t] = Len(jobs) + 1]
    /\ tpc' = [tpc EXCEPT ![t] = "added"]
    /\ UNCHANGED <<fsVars, observer, events, seen, stop_event, processing, tpath,
                   scanTodo, workerVars, added, notified>>
    /\ UNCHANGED <<calls, unitVars>>

\* OnNewFileAppend with the exception of the probe left to propagate: no job
\* is created and the caller of _on_new_file gets the exception.
OnNewFileAppendProbeRaises(t) ==
    /\ tpc[t] = "append"
    /\ LET o == probe_video(tpath[t], inbox)
       IN IF o = "VideoInfo"
             THEN /\ jobs' = Append(jobs, NewJob(tpath[t], o))
                  /\ queue' = Append(queue, Len(jobs) + 1)
                  /\ tjob' = [tjob EXCEPT ![t] = Len(jobs) + 1]
                  /\ tpc' = [tpc EXCEPT ![t] = "added"]
                  /\ UNCHANGED tpath
             ELSE /\ tpc' = [tpc EXCEPT ![t] = Return(t)]
                  /\ tpath' = [tpath EXCEPT ![t] = None]
                  /\ UNCHANGED <<jobs, queue, tjob>>
    /\ UNCHANGED <<fsVars, observer, events, seen, stop_event, processing,
                   scanTodo, workerVars, added, notified>>
    /\ UNCHANGED <<calls, unitVars>>

\* _on_new_file up to the release of the lock (watcher.py 134-158): the probe,
\* whose exceptions leave info None (watcher.py 142-145), then the job created
\* (watcher.py 147-154) and appended to both lists under the lock.
OnNewFileAppend(t) ==
    /\ tpc[t] = "append"
    /\ LET o == probe_video(tpath[t], inbox)
       IN jobs' = Append(jobs, NewJob(tpath[t], IF o = "VideoInfo" THEN o ELSE None))
    /\ queue' = Append(queue, Len(jobs) + 1)
    /\ tjob' = [tjob EXCEPT ![t] = Len(jobs) + 1]
    /\ tpc' = [tpc EXCEPT ![t] = "added"]
    /\ UNCHANGED <<fsVars, observer, events, seen, stop_event, processing, tpath,
                   scanTodo, workerVars, added, notified>>
    /\ UNCHANGED <<calls, unitVars>>

\* A callback called with job j: its name and the status it finds on the job.
Called(cb, j, status) == [calls EXCEPT ![j] = Append(@, [cb |-> cb, status |-> status])]

\* _on_new_file, the on_job_added callback (watcher.py 160-161).
OnNewFileAdded(t) ==
    /\ tpc[t] = "added"
    /\ added' = added \cup {tjob[t]}
    /\ calls' = Called("on_job_added", tjob[t], jobs[tjob[t]].status)
    /\ tpc' = [tpc EXCEPT ![t] = "wake"]
    /\ UNCHANGED <<fsVars, observer, events, seen, stop_event, jobs, queue,
                   processing, tpath, tjob, scanTodo, workerVars, notified>>
    /\ UNCHANGED unitVars

\* The thread _maybe_start_processing starts (watcher.py 172-173).
FreeWorker == CHOOSE w \in Workers :
                 /\ wpc[w] = "dead"
                 /\ \A v \in Workers : wpc[v] = "dead" => w <= v

\* MaybeStartProcessing without the test of the flag: a worker is started
\* whenever the queue is not empty.
MaybeStartProcessingNoFlag(t) ==
    /\ tpc[t] = "wake"
    /\ IF queue = <<>>
          THEN UNCHANGED <<processing, wpc>>
          ELSE /\ \E w \in Workers : wpc[w] = "dead"
               /\ processing' = TRUE
               /\ wpc' = [wpc EXCEPT ![FreeWorker] = "loop"]
    /\ tpc' = [tpc EXCEPT ![t] = Return(t)]
    /\ tpath' = [tpath EXCEPT ![t] = None]
    /\ tjob' = [tjob EXCEPT ![t] = 0]
    /\ UNCHANGED <<fsVars, observer, events, seen, stop_event, jobs, queue,
                   scanTodo, wjob, added, notified>>
    /\ UNCHANGED <<calls, unitVars>>

\* _maybe_start_processing (watcher.py 165-173), called last by _on_new_file
\* (watcher.py 163): under the lock, nothing to do when a worker is running or
\* the queue is empty; else the flag is set and a worker thread started.
MaybeStartProcessing(t) ==
    /\ tpc[t] = "wake"
    /\ IF processing \/ queue = <<>>
          THEN UNCHANGED <<processing, wpc>>
          ELSE /\ \E w \in Workers : wpc[w] = "dead"
               /\ processing' = TRUE
               /\ wpc' = [wpc EXCEPT ![FreeWorker] = "loop"]
    /\ tpc' = [tpc EXCEPT ![t] = Return(t)]
    /\ tpath' = [tpath EXCEPT ![t] = None]
    /\ tjob' = [tjob EXCEPT ![t] = 0]
    /\ UNCHANGED <<fsVars, observer, events, seen, stop_event, jobs, queue,
                   scanTodo, wjob, added, notified>>
    /\ UNCHANGED <<calls, unitVars>>

\* ------------------------------------------------------ caller's thread
\* Start with the job list and the pending queue of the Watcher made anew.
StartClearsJobs ==
    /\ tpc["main"] = "idle"
    /\ ~observer
    /\ stop_event' = FALSE
    /\ seen' = {}
    /\ events' = <<>>
    /\ observer' = TRUE
    /\ notified' = [p \in Paths |-> [event |-> 0, scan |-> 0]]
    /\ tpc' = [tpc EXCEPT !["main"] = "iterdir"]
    /\ jobs' = <<>>
    /\ queue' = <<>>
    /\ UNCHANGED <<fsVars, processing, tpath, tjob, scanTodo, workerVars, added>>
    /\ UNCHANGED <<calls, unitVars>>

\* start() up to the scan (watcher.py 265-270): the stop request is cleared
\* and a new handler, with an empty seen set, is scheduled on a new observer.
Start ==
    /\ tpc["main"] = "idle"
    /\ ~observer
    /\ stop_event' = FALSE
    /\ seen' = {}
    /\ events' = <<>>
    /\ observer' = TRUE
    /\ notified' = [p \in Paths |-> [event |-> 0, scan |-> 0]]
    /\ tpc' = [tpc EXCEPT !["main"] = "iterdir"]
    /\ UNCHANGED <<fsVars, jobs, queue, processing, tpath, tjob, scanTodo,
                   workerVars, added>>
    /\ UNCHANGED <<calls, unitVars>>

\* scan_inbox, the directory listing (watcher.py 259); every path of the model
\* has a video extension (watcher.py 260).
ScanInbox ==
    /\ tpc["main"] = "iterdir"
    /\ scanTodo' = {p \in Paths : Exists(inbox, p)}
    /\ tpc' = [tpc EXCEPT !["main"] = "scan"]
    /\ UNCHANGED <<fsVars, observer, events, seen, stop_event, jobs, queue,
                   processing, tpath, tjob, workerVars, added, notified>>
    /\ UNCHANGED <<calls, unitVars>>

\* scan_inbox, one turn of the loop (watcher.py 259-261): _on_new_file is
\* called on the next listed path, or the loop ends and start() returns.
ScanNext ==
    /\ tpc["main"] = "scan"
    /\ scanTodo # {} => CanEnqueue
    /\ IF scanTodo = {}
          THEN /\ tpc' = [tpc EXCEPT !["main"] = "idle"]
               /\ UNCHANGED <<scanTodo, tpath, notified>>
          ELSE \E p \in scanTodo :
                  /\ scanTodo' = scanTodo \ {p}
                  /\ tpath' = [tpath EXCEPT !["main"] = p]
                  /\ notified' = [notified EXCEPT ![p].scan = @ + 1]
                  /\ tpc' = [tpc EXCEPT !["main"] = "append"]
    /\ UNCHANGED <<fsVars, observer, events, seen, stop_event, jobs, queue,
                   processing, tjob, workerVars, added>>
    /\ UNCHANGED <<calls, unitVars>>

\* stop(), the stop request (watcher.py 277).
Stop ==
    /\ tpc["main"] = "idle"
    /\ observer
    /\ stop_event' = TRUE
    /\ tpc' = [tpc EXCEPT !["main"] = "join"]
    /\ UNCHANGED <<fsVars, observer, events, seen, jobs, queue, processing, tpath,
                   tjob, scanTodo, workerVars, added, notified>>
    /\ UNCHANGED <<calls, unitVars>>

\* stop(), the observer stopped and joined (watcher.py 278-281): the join
\* returns once the handler call in progress has returned; events not yet
\* dispatched are dropped.
StopJoin ==
    /\ tpc["main"] = "join"
    /\ tpc["observer"] = "idle"
    /\ observer' = FALSE
    /\ events' = <<>>
    /\ tpc' = [tpc EXCEPT !["main"] = "idle"]
    /\ UNCHANGED <<fsVars, seen, stop_event, jobs, queue, processing, tpath,
                   tjob, scanTodo, workerVars, added, notified>>
    /\ UNCHANGED <<calls, unitVars>>

\* ---------------------------------------------------------- worker thread
\* ProcessQueue with the flag left set when the worker returns.
ProcessQueueKeepsFlag(w) ==
    /\ wpc[w] = "loop"
    /\ IF queue = <<>> \/ stop_event
          THEN /\ wpc' = [wpc EXCEPT ![w] = "dead"]
               /\ UNCHANGED <<queue, wjob>>
          ELSE /\ wjob' = [wjob EXCEPT ![w] = Head(queue)]
               /\ queue' = Tail(queue)
               /\ wpc' = [wpc EXCEPT ![w] = "picked"]
    /\ UNCHANGED <<fsVars, observer, events, seen, stop_event, jobs, processing,
                   threadVars, scanTodo, added, notified>>
    /\ UNCHANGED <<calls, unitVars>>

\* ProcessQueue without the test of the stop request.
ProcessQueueIgnoresStop(w) ==
    /\ wpc[w] = "loop"
    /\ IF queue = <<>>
          THEN /\ processing' = FALSE
               /\ wpc' = [wpc EXCEPT ![w] = "dead"]
               /\ UNCHANGED <<queue, wjob>>
          ELSE /\ wjob' = [wjob EXCEPT ![w] = Head(queue)]
               /\ queue' = Tail(queue)
               /\ wpc' = [wpc EXCEPT ![w] = "picked"]
               /\ UNCHANGED processing
    /\ UNCHANGED <<fsVars, observer, events, seen, stop_event, jobs, threadVars,
                   scanTodo, added, notified>>
    /\ UNCHANGED <<calls, unitVars>>

\* ProcessQueue with the head of the queue read and left in the queue.
ProcessQueuePeeks(w) ==
    /\ wpc[w] = "loop"
    /\ IF queue = <<>> \/ stop_event
          THEN /\ processing' = FALSE
               /\ wpc' = [wpc EXCEPT ![w] = "dead"]
               /\ UNCHANGED <<queue, wjob>>
          ELSE /\ wjob' = [wjob EXCEPT ![w] = Head(queue)]
               /\ wpc' = [wpc EXCEPT ![w] = "picked"]
               /\ UNCHANGED <<queue, processing>>
    /\ UNCHANGED <<fsVars, observer, events, seen, stop_event, jobs, threadVars,
                   scanTodo, added, notified>>
    /\ UNCHANGED <<calls, unitVars>>

\* _process_queue, one turn of the loop (watcher.py 177-182): under the lock,
\* the worker clears the flag and returns when the queue is empty or a stop
\* is requested, else pops the head of the queue.
ProcessQueue(w) ==
    /\ wpc[w] = "loop"
    /\ IF queue = <<>> \/ stop_event
          THEN /\ processing' = FALSE
               /\ wpc' = [wpc EXCEPT ![w] = "dead"]
               /\ UNCHANGED <<queue, wjob>>
          ELSE /\ wjob' = [wjob EXCEPT ![w] = Head(queue)]
               /\ queue' = Tail(queue)
               /\ wpc' = [wpc EXCEPT ![w] = "picked"]
               /\ UNCHANGED processing
    /\ UNCHANGED <<fsVars, observer, events, seen, stop_event, jobs, threadVars,
                   scanTodo, added, notified>>
    /\ UNCHANGED <<calls, unitVars>>

\* _process_job, the status set and the observers told (watcher.py 188-190).
ProcessJobBegin(w) ==
    /\ wpc[w] = "picked"
    /\ jobs' = [jobs EXCEPT ![wjob[w]].status = PROCESSING]
    /\ calls' = Called("on_job_updated", wjob[w], PROCESSING)
    /\ wpc' = [wpc EXCEPT ![w] = "rename"]
    /\ UNCHANGED <<fsVars, observer, events, seen, stop_event, queue, processing,
                   threadVars, scanTodo, wjob, added, notified>>
    /\ UNCHANGED unitVars

\* The except clause of _process_job (watcher.py 248-250).
Except(j, e) == [jobs EXCEPT ![j].status = FAILED, ![j].error = ExcStr(e)]

\* Outcomes of Path.rename (watcher.py 195) on a file that exists: the file
\* is moved, or the operating system refuses and the file stays where it is.
RenameOutcomes == {"ok", "PermissionError"}

\* ProcessJobRename with job.input_path assigned before the rename is tried.
ProcessJobRenameAssignsFirst(w) ==
    /\ wpc[w] = "rename"
    /\ LET j == wjob[w]
           name == jobs[j].input_path.name
           moved == [jobs EXCEPT ![j].input_path.dir = "processing"]
       IN IF Exists(inbox, name)
             THEN \E o \in RenameOutcomes :
                     IF o = "ok"
                        THEN /\ inbox' = [inbox EXCEPT ![name] = None]
                             /\ processingDir' = [processingDir EXCEPT ![name] = inbox[name]]
                             /\ jobs' = moved
                             /\ wpc' = [wpc EXCEPT ![w] = "transcode"]
                        ELSE /\ jobs' = [moved EXCEPT ![j].status = FAILED,
                                                      ![j].error = ExcStr(o)]
                             /\ wpc' = [wpc EXCEPT ![w] = "notify"]
                             /\ UNCHANGED fsVars
             ELSE /\ jobs' = [moved EXCEPT ![j].status = FAILED,
                                           ![j].error = ExcStr("FileNotFoundError")]
                  /\ wpc' = [wpc EXCEPT ![w] = "notify"]
                  /\ UNCHANGED fsVars
    /\ UNCHANGED <<observer, events, seen, stop_event, queue, processing,
                   threadVars, scanTodo, wjob, added, notified>>
    /\ UNCHANGED <<calls, unitVars>>

\* _process_job, the move into the processing folder (watcher.py 194-196).
ProcessJobRename(w) ==
    /\ wpc[w] = "rename"
    /\ LET j == wjob[w]
           name == jobs[j].input_path.name
       IN IF Exists(inbox, name)
             THEN \E o \in RenameOutcomes :
                     IF o = "ok"
                        THEN /\ inbox' = [inbox EXCEPT ![name] = None]
                             /\ processingDir' = [processingDir EXCEPT ![name] = inbox[name]]
                             /\ jobs' = [jobs EXCEPT ![j].input_path.dir = "processing"]
                             /\ wpc' = [wpc EXCEPT ![w] = "transcode"]
                        ELSE /\ jobs' = Except(j, o)
                             /\ wpc' = [wpc EXCEPT ![w] = "notify"]
                             /\ UNCHANGED fsVars
             ELSE /\ jobs' = Except(j, "FileNotFoundError")
                  /\ wpc' = [wpc EXCEPT ![w] = "notify"]
                  /\ UNCHANGED fsVars
    /\ UNCHANGED <<observer, events, seen, stop_event, queue, processing,
                   threadVars, scanTodo, wjob, added, notified>>
    /\ UNCHANGED <<calls, unitVars>>

\* Outcomes of compress / convert_to_gif / convert_to_loop on a file of the
\* processing folder: the exception of the probe they start with (compress.py
\* 261, 359, 487), else a result when ffmpeg exits with code 0 (compress.py
\* 319-325) and RuntimeError when it exits with another code (compress.py
\* 315-317).
TranscodeOutcomes(path, files) ==
    IF probe_video(path, files) # "VideoInfo"
       THEN {probe_video(path, files)}
       ELSE {"ok", "RuntimeError"}

\* _process_job, the transcode and the result recorded (watcher.py 204-242).
ProcessJobTranscode(w) ==
    /\ wpc[w] = "transcode"
    /\ \E o \in TranscodeOutcomes(jobs[wjob[w]].input_path.name, processingDir) :
          IF o = "ok"
             THEN /\ jobs' = [jobs EXCEPT ![wjob[w]].result = "CompressionResult",
                                          ![wjob[w]].status = DONE,
                                          ![wjob[w]].progress = 100]
                  /\ wpc' = [wpc EXCEPT ![w] = "cleanup"]
             ELSE /\ jobs' = Except(wjob[w], o)
                  /\ wpc' = [wpc EXCEPT ![w] = "notify"]
    /\ UNCHANGED <<fsVars, observer, events, seen, stop_event, queue, processing,
                   threadVars, scanTodo, wjob, added, notified>>
    /\ UNCHANGED <<calls, unitVars>>

\* Outcomes of Path.unlink (watcher.py 246) on a file that exists.
UnlinkOutcomes == {"ok", "PermissionError"}

\* ProcessJobCleanup without the source file removed.
ProcessJobCleanupKeepsFile(w) ==
    /\ wpc[w] = "cleanup"
    /\ wpc' = [wpc EXCEPT ![w] = "notify"]
    /\ UNCHANGED <<fsVars, jobs, observer, events, seen, stop_event, queue, processing,
                   threadVars, scanTodo, wjob, added, notified>>
    /\ UNCHANGED <<calls, unitVars>>

\* _process_job, the source file removed from the processing folder
\* (watcher.py 244-246), inside the try block.
ProcessJobCleanup(w) ==
    /\ wpc[w] = "cleanup"
    /\ LET j == wjob[w]
           name == jobs[j].input_path.name
       IN IF Exists(processingDir, name)
             THEN \E o \in UnlinkOutcomes :
                     IF o = "ok"
                        THEN /\ processingDir' = [processingDir EXCEPT ![name] = None]
                             /\ UNCHANGED jobs
                        ELSE /\ jobs' = Except(j, o)
                             /\ UNCHANGED processingDir
             ELSE UNCHANGED <<processingDir, jobs>>
    /\ wpc' = [wpc EXCEPT ![w] = "notify"]
    /\ UNCHANGED <<inbox, observer, events, seen, stop_event, queue, processing,
                   threadVars, scanTodo, wjob, added, notified>>
    /\ UNCHANGED <<calls, unitVars>>

\* _process_job, the observers told of the end (watcher.py 252-255); the
\* worker goes back to the loop of _process_queue (watcher.py 177).
ProcessJobEnd(w) ==
    /\ wpc[w] = "notify"
    /\ calls' = Called("on_job_done", wjob[w], jobs[wjob[w]].status)
    /\ wpc' = [wpc EXCEPT ![w] = "loop"]
    /\ wjob' = [wjob EXCEPT ![w] = 0]
    /\ UNCHANGED <<fsVars, observer, events, seen, stop_event, jobs, queue,
                   processing, threadVars, scanTodo, added, notified>>
    /\ UNCHANGED unitVars

\* ---------------------------------------------------------- specification
Next ==
    \/ \E p \in Paths, c \in Contents : Drop(p, c)
    \/ \E p \in Paths, c \in Contents : Rewrite(p, c)
    \/ \E p \in Paths : Remove(p)
    \/ HandleFile
    \/ HandleFileWake
    \/ \E t \in Threads : OnNewFileAppend(t)
    \/ \E t \in Threads : OnNewFileAdded(t)
    \/ \E t \in Threads : MaybeStartProcessing(t)
    \/ Start
    \/ ScanInbox
    \/ ScanNext
    \/ Stop
    \/ StopJoin
    \/ \E w \in Workers : ProcessQueue(w)
    \/ \E w \in Workers : ProcessJobBegin(w)
    \/ \E w \in Workers : ProcessJobRename(w)
    \/ \E w \in Workers : ProcessJobTranscode(w)
    \/ \E w \in Workers : ProcessJobCleanup(w)
    \/ \E w \in Workers : ProcessJobEnd(w)

Spec == Init /\ [][Next]_vars

\* The steps of worker thread w, and of thread t inside _on_new_file.
WorkerStep(w) ==
    \/ ProcessQueue(w)
    \/ ProcessJobBegin(w)
    \/ ProcessJobRename(w)
    \/ ProcessJobTranscode(w)
    \/ ProcessJobCleanup(w)
    \/ ProcessJobEnd(w)

EnqueueStep(t) ==
    \/ OnNewFileAppend(t)
    \/ OnNewFileAdded(t)
    \/ MaybeStartProcessing(t)

\* The threads are scheduled by the operating system: a thread that can take
\* a step eventually takes it, the calls into ffprobe and ffmpeg return and
\* the callbacks of the observers return.
FairSpec ==
    /\ Spec
    /\ \A w \in Workers : WF_vars(WorkerStep(w))
    /\ \A t \in Threads : WF_vars(EnqueueStep(t))

\* ------------------------------------------- callbacks that raise
\* _process_job when on_job_updated raises (watcher.py 188-190): the call is
\* outside the try block, so the exception leaves _process_job and
\* _process_queue and ends the thread; the flag is not cleared.
ProcessJobBeginRaises(w) ==
    /\ wpc[w] = "picked"
    /\ jobs' = [jobs EXCEPT ![wjob[w]].status = PROCESSING]
    /\ calls' = Called("on_job_updated", wjob[w], PROCESSING)
    /\ wpc' = [wpc EXCEPT ![w] = "dead"]
    /\ wjob' = [wjob EXCEPT ![w] = 0]
    /\ UNCHANGED <<fsVars, observer, events, seen, stop_event, queue, processing,
                   threadVars, scanTodo, added, notified>>
    /\ UNCHANGED unitVars

\* _process_job when on_job_updated raises inside on_progress (watcher.py
\* 198-201), called by the transcode: the exception, unless it is a ValueError
\* or a ZeroDivisionError (compress.py 310), leaves the transcode and is caught
\* by the except clause (watcher.py 248-250).
ProcessJobProgressRaises(w) ==
    /\ wpc[w] = "transcode"
    /\ probe_video(jobs[wjob[w]].input_path.name, processingDir) = "VideoInfo"
    /\ jobs' = Except(wjob[w], "CallbackError")
    /\ calls' = Called("on_job_updated", wjob[w], PROCESSING)
    /\ wpc' = [wpc EXCEPT ![w] = "notify"]
    /\ UNCHANGED <<fsVars, observer, events, seen, stop_event, queue, processing,
                   threadVars, scanTodo, wjob, added, notified>>
    /\ UNCHANGED unitVars

\* _process_job when on_job_done raises (watcher.py 252-253), outside the try
\* block: the thread ends with the flag set.
ProcessJobEndRaises(w) ==
    /\ wpc[w] = "notify"
    /\ calls' = Called("on_job_done", wjob[w], jobs[wjob[w]].status)
    /\ wpc' = [wpc EXCEPT ![w] = "dead"]
    /\ wjob' = [wjob EXCEPT ![w] = 0]
    /\ UNCHANGED <<fsVars, observer, events, seen, stop_event, jobs, queue,
                   processing, threadVars, scanTodo, added, notified>>
    /\ UNCHANGED unitVars

\* The pipeline with callbacks of the worker that may raise.
RaisingNext ==
    \/ Next
    \/ \E w \in Workers : ProcessJobBeginRaises(w)
    \/ \E w \in Workers : ProcessJobProgressRaises(w)
    \/ \E w \in Workers : ProcessJobEndRaises(w)

RaisingSpec == Init /\ [][RaisingNext]_vars

\* ------------------------------------------------------------ numbers
\* The floats of the code are modelled as exact fractions <<numerator,
\* denominator>> in lowest terms with a positive denominator.
RECURSIVE GCD(_, _)
GCD(a, b) == IF b = 0 THEN a ELSE GCD(b, a % b)

Abs(n) == IF n < 0 THEN -n ELSE n

Rat(n, d) ==
    LET g == GCD(Abs(n), Abs(d))
        sgn == IF d < 0 THEN -1 ELSE 1
    IN <<sgn * (n \div g), sgn * (d \div g)>>

RatAdd(x, y) == Rat(x[1] * y[2] + y[1] * x[2], x[2] * y[2])
RatMul(x, y) == Rat(x[1] * y[1], x[2] * y[2])
RatLe(x, y) == x[1] * y[2] <= y[1] * x[2]
RatMin(x, y) == IF RatLe(x, y) THEN x ELSE y

\* ---------------------------------------------------------------- text
\* A str is a sequence of one-character strings.  Where the code has None for
\* a str or a float, the model has the empty sequence, and an exception is a
\* sequence holding its name.
Absent == <<>>
ValueError == <<"ValueError">>
Digits == <<"0", "1", "2", "3", "4", "5", "6", "7", "8", "9">>
IsDigit(c) == \E i \in 1..Len(Digits) : Digits[i] = c
DigitVal(c) == (CHOOSE i \in 1..Len(Digits) : Digits[i] = c) - 1

UpperCase == <<"A", "B", "C", "D", "E", "F", "G", "H", "I", "J", "K", "L", "M",
               "N", "O", "P", "Q", "R", "S", "T", "U", "V", "W", "X", "Y", "Z">>
LowerCase == <<"a", "b", "c", "d", "e", "f", "g", "h", "i", "j", "k", "l", "m",
               "n", "o", "p", "q", "r", "s", "t", "u", "v", "w", "x", "y", "z">>

\* str.lower
Lower(s) ==
    [i \in 1..Len(s) |->
        IF \E k \in 1..Len(UpperCase) : UpperCase[k] = s[i]
           THEN LowerCase[CHOOSE k \in 1..Len(UpperCase) : UpperCase[k] = s[i]]
           ELSE s[i]]

\* s[i:j] of Python with 1-based i and exclusive j
Slice(s, i, j) == [k \in 1..(j - i) |-> s[i + k - 1]]

\* pat occurs in s at position i
At(s, i, pat) ==
    /\ i >= 1
    /\ i + Len(pat) - 1 <= Len(s)
    /\ \A k \in 1..Len(pat) : s[i + k - 1] = pat[k]

\* str.endswith, the in operator of str, str.strip
EndsWith(s, suf) == At(s, Len(s) - Len(suf) + 1, suf)
Contains(s, pat) == \E i \in 1..(Len(s) + 1) : At(s, i, pat)

RECURSIVE Strip(_)
Strip(s) ==
    IF s = <<>> THEN s
    ELSE IF Head(s) = " " THEN Strip(Tail(s))
    ELSE IF s[Len(s)] = " " THEN Strip(SubSeq(s, 1, Len(s) - 1))
    ELSE s

\* str.split(":")
RECURSIVE Split(_)
Split(s) ==
    IF \A i \in 1..Len(s) : s[i] # ":"
       THEN <<s>>
       ELSE LET i == CHOOSE k \in 1..Len(s) : s[k] = ":" /\ \A m \in 1..(k - 1) : s[m] # ":"
            IN <<Slice(s, 1, i)>> \o Split(Slice(s, i + 1, Len(s) + 1))

\* PurePath.stem and PurePath.suffix of a file name: the name is cut at its
\* last dot, unless that dot starts or ends the name.
LastDot(name) ==
    IF \E i \in 1..Len(name) : name[i] = "."
       THEN CHOOSE i \in 1..Len(name) : name[i] = "." /\ \A k \in (i + 1)..Len(name) : name[k] # "."
       ELSE 0
PathStem(name) ==
    IF 1 < LastDot(name) /\ LastDot(name) < Len(name)
       THEN Slice(name, 1, LastDot(name))
       ELSE name
PathSuffix(name) ==
    IF 1 < LastDot(name) /\ LastDot(name) < Len(name)
       THEN Slice(name, LastDot(name), Len(name) + 1)
       ELSE <<>>

\* The position after the run of digits that starts at i (i itself when s[i]
\* is no digit).
RunEnd(s, i) ==
    CHOOSE j \in i..(Len(s) + 1) :
       /\ \A k \in i..(j - 1) : IsDigit(s[k])
       /\ j = Len(s) + 1 \/ ~IsDigit(s[j])

RECURSIVE IntOf(_)
IntOf(ds) == IF ds = <<>> THEN 0 ELSE 10 * IntOf(SubSeq(ds, 1, Len(ds) - 1)) + DigitVal(ds[Len(ds)])

RECURSIVE Pow10(_)
Pow10(k) == IF k = 0 THEN 1 ELSE 10 * Pow10(k - 1)

\* float(x) on the spellings the inputs of the model use: digits, or digits,
\* a point and digits; anything else raises ValueError.
Float(x) ==
    LET e == RunEnd(x, 1)
    IN IF x = <<>> \/ e = 1 THEN ValueError
       ELSE IF e = Len(x) + 1 THEN Rat(IntOf(x), 1)
       ELSE IF x[e] = "." /\ e < Len(x) /\ RunEnd(x, e + 1) = Len(x) + 1
          THEN Rat(IntOf(Slice(x, 1, e) \o Slice(x, e + 1, Len(x) + 1)), Pow10(Len(x) - e))
       ELSE ValueError

\* ------------------------------------------------ filename convention
Social == <<"s", "o", "c", "i", "a", "l">>
Web == <<"w", "e", "b">>
Archive == <<"a", "r", "c", "h", "i", "v", "e">>
Tiny == <<"t", "i", "n", "y">>
Gif == <<"g", "i", "f">>
Loop == <<"l", "o", "o", "p">>

\* The keys of PRESETS in the order of the dict (compress.py 22-51); a preset
\* is identified by its name.
PRESETS == <<Social, Web, Archive, Tiny>>

\* SPECIAL_FORMATS (compress.py 54) is a set of str: the order in which a
\* process iterates it depends on the hash seed of the process.
SPECIAL_FORMATS == {Gif, Loop}
FormatOrders == {<<Gif, Loop>>, <<Loop, Gif>>}

\* DEFAULT_PRESET (compress.py 56)
DEFAULT_PRESET == Social

\* detect_preset_from_filename (compress.py 59-68)
detect_preset_from_filename(name) ==
    LET stem == Lower(PathStem(name))
        hits == {i \in 1..Len(PRESETS) : EndsWith(stem, <<"-">> \o PRESETS[i])}
    IN IF hits = {} THEN Absent
       ELSE PRESETS[CHOOSE i \in hits : \A k \in hits : i <= k]

\* detect_special_format looking for the marker at the end of the stem only.
detect_special_formatAtEnd(name, order) ==
    LET stem == Lower(PathStem(name))
        hits == {i \in 1..Len(order) : EndsWith(stem, <<"-">> \o order[i])}
    IN IF hits = {} THEN Absent
       ELSE order[CHOOSE i \in hits : \A k \in hits : i <= k]

\* detect_special_format (compress.py 71-80), iterating in the given order
detect_special_format(name, order) ==
    LET stem == Lower(PathStem(name))
        hits == {i \in 1..Len(order) :
                    \/ EndsWith(stem, <<"-">> \o order[i])
                    \/ Contains(stem, <<"-">> \o order[i] \o <<"-">>)}
    IN IF hits = {} THEN Absent
       ELSE order[CHOOSE i \in hits : \A k \in hits : i <= k]

\* parse_time reading mm:ss as hh:mm.
parse_timeHoursFirst(str) ==
    IF str = Absent \/ Strip(str) = <<>> THEN Absent
    ELSE LET low == Lower(Strip(str))
             t == IF EndsWith(low, <<"s">>) THEN SubSeq(low, 1, Len(low) - 1) ELSE low
             parts == Split(t)
             f(i) == Float(parts[i])
         IN IF Len(parts) = 2
               THEN IF f(1) = ValueError \/ f(2) = ValueError THEN ValueError
                    ELSE RatAdd(RatMul(f(1), Rat(3600, 1)), RatMul(f(2), Rat(60, 1)))
            ELSE IF Len(parts) = 3
               THEN IF f(1) = ValueError \/ f(2) = ValueError \/ f(3) = ValueError
                       THEN ValueError
                    ELSE RatAdd(RatAdd(RatMul(f(1), Rat(3600, 1)), RatMul(f(2), Rat(60, 1))), f(3))
            ELSE Float(t)

\* parse_time (compress.py 83-108): None, a number of seconds, or the
\* ValueError of float().
parse_time(str) ==
    IF str = Absent \/ Strip(str) = <<>> THEN Absent
    ELSE LET low == Lower(Strip(str))
             t == IF EndsWith(low, <<"s">>) THEN SubSeq(low, 1, Len(low) - 1) ELSE low
             parts == Split(t)
             f(i) == Float(parts[i])
         IN IF Len(parts) = 2
               THEN IF f(1) = ValueError \/ f(2) = ValueError THEN ValueError
                    ELSE RatAdd(RatMul(f(1), Rat(60, 1)), f(2))
            ELSE IF Len(parts) = 3
               THEN IF f(1) = ValueError \/ f(2) = ValueError \/ f(3) = ValueError
                       THEN ValueError
                    ELSE RatAdd(RatAdd(RatMul(f(1), Rat(3600, 1)), RatMul(f(2), Rat(60, 1))), f(3))
            ELSE Float(t)

\* The positions at which a match of \d+(?:\.\d+)?s? that starts at i can
\* end (exclusive).  The regex engine prefers the longer match at every
\* choice, which makes the largest end that lets the rest of the pattern
\* match the one it takes.
TimeTokenEnds(s, i) ==
    IF i > Len(s) \/ ~IsDigit(s[i]) THEN {}
    ELSE LET whole == (i + 1)..RunEnd(s, i)
             frac == {e \in (i + 1)..(Len(s) + 1) :
                         \E d \in whole : /\ d < Len(s)
                                          /\ s[d] = "."
                                          /\ IsDigit(s[d + 1])
                                          /\ e \in (d + 2)..RunEnd(s, d + 1)}
             num == whole \cup frac
         IN num \cup {e + 1 : e \in {x \in num : x <= Len(s) /\ s[x] = "s"}}

Max(S) == CHOOSE x \in S : \A y \in S : y <= x
Min(S) == CHOOSE x \in S : \A y \in S : x <= y

\* SearchStartEnd finding no match.
SearchStartEndNoMatch(stem, fmt) == Absent

\* re.search of -<fmt>-(\d+(?:\.\d+)?s?)-(\d+(?:\.\d+)?s?) (compress.py
\* 124-125): the two groups of the leftmost match, or nothing.
SearchStartEnd(stem, fmt) ==
    LET pre == <<"-">> \o fmt \o <<"-">>
        first(p) == p + Len(pre)
        ends1(p) == {e \in TimeTokenEnds(stem, first(p)) :
                        /\ e <= Len(stem)
                        /\ stem[e] = "-"
                        /\ TimeTokenEnds(stem, e + 1) # {}}
        starts == {p \in 1..Len(stem) : At(stem, p, pre) /\ ends1(p) # {}}
    IN IF starts = {} THEN Absent
       ELSE LET p == Min(starts)
                e1 == Max(ends1(p))
            IN <<Slice(stem, first(p), e1),
                 Slice(stem, e1 + 1, Max(TimeTokenEnds(stem, e1 + 1)))>>

\* re.search of -<fmt>-(\d+(?:\.\d+)?s?)(?:$|[^0-9]) (compress.py 132-133):
\* the group of the leftmost match, or nothing.
SearchStart(stem, fmt) ==
    LET pre == <<"-">> \o fmt \o <<"-">>
        first(p) == p + Len(pre)
        ends(p) == {e \in TimeTokenEnds(stem, first(p)) :
                       e = Len(stem) + 1 \/ ~IsDigit(stem[e])}
        starts == {p \in 1..Len(stem) : At(stem, p, pre) /\ ends(p) # {}}
    IN IF starts = {} THEN Absent
       ELSE LET p == Min(starts)
            IN Slice(stem, first(p), Max(ends(p)))

\* parse_trim_from_filename (compress.py 111-142), iterating SPECIAL_FORMATS
\* in the given order: <<format, start, end>>.
RECURSIVE ParseTrimFrom(_, _, _)
ParseTrimFrom(stem, order, i) ==
    IF i > Len(order) THEN <<Absent, Absent, Absent>>
    ELSE LET fmt == order[i]
         IN IF SearchStartEnd(stem, fmt) # Absent
               THEN <<fmt, parse_time(SearchStartEnd(stem, fmt)[1]),
                           parse_time(SearchStartEnd(stem, fmt)[2])>>
            ELSE IF SearchStart(stem, fmt) # Absent
               THEN <<fmt, parse_time(SearchStart(stem, fmt)), Absent>>
            ELSE IF EndsWith(stem, <<"-">> \o fmt)
               THEN <<fmt, Absent, Absent>>
            ELSE ParseTrimFrom(stem, order, i + 1)

parse_trim_from_filename(name, order) == ParseTrimFrom(Lower(PathStem(name)), order, 1)

\* get_output_name without the preset suffix of the stem removed.
get_output_nameKeepsSuffix(name, preset) ==
    PathStem(name) \o <<"-">> \o preset \o <<"-", "o", "u", "t", ".", "m", "p", "4">>

\* get_output_name (compress.py 145-153), the file name of the path returned
get_output_name(name, preset) ==
    LET stem == PathStem(name)
        hits == {i \in 1..Len(PRESETS) : EndsWith(Lower(stem), <<"-">> \o PRESETS[i])}
        cut == IF hits = {} THEN stem
               ELSE SubSeq(stem, 1, Len(stem) - (Len(PRESETS[Min(hits)]) + 1))
    IN cut \o <<"-">> \o preset \o <<"-", "o", "u", "t", ".", "m", "p", "4">>

\* The positions at which a match of \d+s? that starts at i can end, under
\* re.IGNORECASE.
IntTokenEnds(s, i) ==
    IF i > Len(s) \/ ~IsDigit(s[i]) THEN {}
    ELSE LET whole == (i + 1)..RunEnd(s, i)
         IN whole \cup {e + 1 : e \in {x \in whole : x <= Len(s) /\ s[x] \in {"s", "S"}}}

\* re.sub(r'-<fmt>(-\d+s?(-\d+s?)?)?$', '', stem, flags=re.IGNORECASE)
\* (watcher.py 208, 221): the leftmost match, which runs to the end of the
\* stem, is cut off.
StripMarker(stem, fmt) ==
    LET low == Lower(stem)
        pre == <<"-">> \o fmt
        last == Len(stem) + 1
        tail(q) ==
            \/ q = last
            \/ /\ q <= Len(stem)
               /\ stem[q] = "-"
               /\ \E e \in IntTokenEnds(stem, q + 1) :
                     \/ e = last
                     \/ /\ e < last
                        /\ stem[e] = "-"
                        /\ last \in IntTokenEnds(stem, e + 1)
        starts == {p \in 1..Len(stem) : At(low, p, pre) /\ tail(p + Len(pre))}
    IN IF starts = {} THEN stem ELSE SubSeq(stem, 1, Min(starts) - 1)

\* _on_new_file without the probe (watcher.py 134-154): the Job made of a
\* file name.  The default is DEFAULT_PRESET of compress.py; the configuration
\* is not read.
ConvJob(name, order) ==
    LET trim == parse_trim_from_filename(name, order)
        special_format == IF trim[1] = Absent THEN detect_special_format(name, order)
                          ELSE trim[1]
        preset == IF detect_preset_from_filename(name) # Absent
                     THEN detect_preset_from_filename(name)
                     ELSE DEFAULT_PRESET
    IN [name |-> name,
        preset |-> preset,
        special_format |-> special_format,
        start_time |-> trim[2],
        end_time |-> trim[3],
        ran |-> None,
        output |-> Absent,
        cli_output |-> Absent]

\* The function _process_job calls for a job and the name of the file it is
\* told to write in the done folder (watcher.py 204-238).
Conversion(job) ==
    IF job.special_format = Gif THEN "convert_to_gif"
    ELSE IF job.special_format = Loop THEN "convert_to_loop"
    ELSE "compress"

OutputName(job) ==
    LET stem == PathStem(job.name)
    IN IF job.special_format = Gif
          THEN StripMarker(stem, Gif) \o <<".", "g", "i", "f">>
       ELSE IF job.special_format = Loop
          THEN StripMarker(stem, Loop) \o <<"-", "l", "o", "o", "p", ".", "m", "p", "4">>
       ELSE stem \o <<"-", "o", "u", "t", ".", "m", "p", "4">>

\* ------------------------------------------- convention, the inputs
Mp4 == <<".", "m", "p", "4">>
Base == <<"c", "l", "i", "p">>

\* The parts file names are made of: markers and preset suffixes in both
\* cases, time tokens, and a part that is none of them.
Segments ==
    {<<"-">> \o Gif, <<"-">> \o Loop, <<"-", "G", "I", "F">>,
     <<"-">> \o Social, <<"-", "W", "e", "b">>,
     <<"-", "2">>, <<"-", "5", "s">>, <<"-", "1", "0", "s">>, <<"-", "1", ".", "5", "s">>,
     <<"-", "x">>}

RECURSIVE Flatten(_)
Flatten(ss) == IF ss = <<>> THEN <<>> ELSE Head(ss) \o Flatten(Tail(ss))

\* clip<parts>.mp4 for up to MaxSegs parts
Generated ==
    {Base \o Flatten(ss) \o Mp4 : ss \in UNION {[1..n -> Segments] : n \in 0..MaxSegs}}

\* The files of the scenario: a-social.mp4, b-gif-2-5.mp4, c.mp4
FileA == <<"a", "-">> \o Social \o Mp4
FileB == <<"b", "-">> \o Gif \o <<"-", "2", "-", "5">> \o Mp4
FileC == <<"c">> \o Mp4
Scenario == {FileA, FileB, FileC}

\* Numbers as written in time tokens, with their values.
Numbers ==
    {<<<<"0">>, Rat(0, 1)>>, <<<<"0", "1">>, Rat(1, 1)>>, <<<<"1">>, Rat(1, 1)>>,
     <<<<"5">>, Rat(5, 1)>>, <<<<"3", "0">>, Rat(30, 1)>>, <<<<"9", "0">>, Rat(90, 1)>>,
     <<<<"1", ".", "5">>, Rat(3, 2)>>}

\* The forms of a time token: N, Ns, M:S, H:M:S
Plain(n) == n[1]
WithS(n) == n[1] \o <<"s">>
MinSec(m, n) == m[1] \o <<":">> \o n[1]
HourMinSec(h, m, n) == h[1] \o <<":">> \o m[1] \o <<":">> \o n[1]

\* Arguments of parse_time: the valid tokens, in upper case and padded too,
\* and strings that are no time.
TimeStrings ==
    LET valid == {Plain(n) : n \in Numbers} \cup {WithS(n) : n \in Numbers}
                    \cup {MinSec(m, n) : m, n \in Numbers}
                    \cup {HourMinSec(h, m, n) : h, m, n \in Numbers}
    IN valid \cup {<<" ">> \o t \o <<" ">> : t \in {WithS(n) : n \in Numbers}}
             \cup {n[1] \o <<"S">> : n \in Numbers}
             \cup {<<>>, <<" ">>, <<"x">>, <<"1", ":", "2", ":", "3", ":", "4">>, <<"s">>}

\* Time tokens written with colons, with the values parse_time gives them, and
\* the file names that carry one or two of them after a marker.
ColonTokens ==
    {<<<<"1", ":", "3", "0">>, Rat(90, 1)>>, <<<<"0", ":", "5">>, Rat(5, 1)>>,
     <<<<"0", ":", "0", "1", ":", "3", "0">>, Rat(90, 1)>>}
ColonFiles ==
    {Base \o <<"-">> \o fmt \o <<"-">> \o a[1] \o Mp4 : fmt \in SPECIAL_FORMATS, a \in ColonTokens}
       \cup {Base \o <<"-">> \o fmt \o <<"-">> \o a[1] \o <<"-">> \o b[1] \o Mp4 :
                fmt \in SPECIAL_FORMATS, a \in ColonTokens, b \in ColonTokens}

\* Files dropped in one session: the same base with another extension, and
\* with another trim suffix after the marker.
Mov == <<".", "m", "o", "v">>
SessionFiles ==
    {Base \o Mp4, Base \o Mov,
     Base \o <<"-">> \o Gif \o <<"-", "2">> \o Mp4,
     Base \o <<"-">> \o Gif \o <<"-", "5", "s">> \o Mp4,
     Base \o <<"-">> \o Loop \o Mp4}

NotCalled == <<"not called">>

\* --------------------------------------- convention, the specification
\* A batch of the scenario arrives under any configured default preset and
\* any iteration order, a generated file or a file with colon tokens under
\* any iteration order, two different files of one session, and
\* parse_time is called on any of the time strings.
ConvInit ==
    /\ PipelineIdle
    /\ TransIdle
    /\ FineIdle
    /\ cjobs = <<>>
    /\ seconds = NotCalled
    /\ \/ /\ arriving \in UNION {[1..n -> Scenario] : n \in 1..MaxBatch}
          /\ config_default \in {PRESETS[i] : i \in 1..Len(PRESETS)}
          /\ fmt_order \in FormatOrders
          /\ time_str = <<>>
       \/ /\ arriving \in {<<f>> : f \in Generated \cup ColonFiles}
          /\ config_default = DEFAULT_PRESET
          /\ fmt_order \in FormatOrders
          /\ time_str = <<>>
       \/ /\ arriving \in {p \in SessionFiles \X SessionFiles : p[1] # p[2]}
          /\ config_default = DEFAULT_PRESET
          /\ fmt_order \in FormatOrders
          /\ time_str = <<>>
       \/ /\ arriving = <<>>
          /\ config_default = DEFAULT_PRESET
          /\ fmt_order = <<Gif, Loop>>
          /\ time_str \in TimeStrings

\* _on_new_file on the next file of the batch (watcher.py 131-158)
ConvOnNewFile ==
    /\ arriving # <<>>
    /\ cjobs' = Append(cjobs, ConvJob(Head(arriving), fmt_order))
    /\ arriving' = Tail(arriving)
    /\ UNCHANGED <<fmt_order, config_default, time_str, seconds>>
    /\ UNCHANGED <<pipelineVars, transVars, fineVars>>

\* The first job that was not run yet.
Pending == {j \in 1..Len(cjobs) : cjobs[j].ran = None}

\* _process_job on the oldest job not run yet (watcher.py 182-184, 204-238):
\* the conversion it calls and the output file it names.
ConvProcessJob ==
    /\ Pending # {}
    /\ LET j == Min(Pending)
       IN cjobs' = [cjobs EXCEPT ![j].ran = Conversion(cjobs[j]),
                                 ![j].output = OutputName(cjobs[j])]
    /\ UNCHANGED <<fmt_order, config_default, arriving, time_str, seconds>>
    /\ UNCHANGED <<pipelineVars, transVars, fineVars>>

\* compress called on a file without preset and output path (compress.py
\* 245-258): the preset is detected, or the default, and the output is named
\* by get_output_name.
CompressDefaultOutput ==
    /\ \E j \in 1..Len(cjobs) :
          /\ cjobs[j].cli_output = Absent
          /\ \A k \in 1..(j - 1) : cjobs[k].cli_output # Absent
          /\ LET name == cjobs[j].name
                 preset == IF detect_preset_from_filename(name) # Absent
                              THEN detect_preset_from_filename(name)
                              ELSE DEFAULT_PRESET
             IN cjobs' = [cjobs EXCEPT ![j].cli_output = get_output_name(name, preset)]
    /\ UNCHANGED <<fmt_order, config_default, arriving, time_str, seconds>>
    /\ UNCHANGED <<pipelineVars, transVars, fineVars>>

\* parse_time called on a string
ParseTime ==
    /\ seconds = NotCalled
    /\ arriving = <<>> /\ cjobs = <<>>
    /\ seconds' = parse_time(time_str)
    /\ UNCHANGED <<fmt_order, config_default, arriving, cjobs, time_str>>
    /\ UNCHANGED <<pipelineVars, transVars, fineVars>>

ConvNext ==
    \/ ConvOnNewFile
    \/ ConvProcessJob
    \/ CompressDefaultOutput
    \/ ParseTime

ConventionSpec == ConvInit /\ [][ConvNext]_vars

\* ------------------------------------------------------ one transcode call
\* compress, convert_to_gif or convert_to_loop called by _process_job with its
\* on_progress (watcher.py 198-238) on a file whose probe succeeds.
Modes == {"compress", "convert_to_gif", "convert_to_loop"}

\* Whole numbers of seconds, as floats
Seconds == {Rat(k, 1) : k \in 0..MaxSeconds}

\* The integers ffmpeg prints after out_time_ms=, in microseconds
OutTimes == {k * 1000000 : k \in (-MaxSeconds)..MaxSeconds}

\* Exit codes of ffmpeg, and what it wrote to stderr
ExitCodes == {0, 1}
Stderr == "Conversion failed!"

\* x or y, for floats and None
Or(x, y) == IF x = Absent \/ x = Rat(0, 1) THEN y ELSE x

\* The duration the progress is measured against: info.duration in compress
\* (compress.py 262), effective_duration in convert_to_gif and
\* convert_to_loop (compress.py 362-364, 490-492).
effective_duration(args) ==
    IF args.mode = "compress" THEN args.duration
    ELSE RatAdd(Or(args.end, args.duration), RatMul(Rat(-1, 1), Or(args.start, Rat(0, 1))))

\* min(1.0, (time_ms / 1_000_000) / duration) (compress.py 304, 427, 543) for
\* a duration other than 0
Fraction(time_ms, duration) ==
    RatMin(Rat(1, 1), Rat(time_ms * duration[2], 1000000 * duration[1]))

\* prog of one out_time_ms line (compress.py 304, 427, 543); the division
\* raises ZeroDivisionError when the duration is 0.
Prog(args, time_ms) ==
    IF effective_duration(args) = Rat(0, 1) THEN <<"ZeroDivisionError">>
    ELSE IF args.mode = "convert_to_gif"
       THEN RatAdd(Rat(3, 10), RatMul(Rat(7, 10), Fraction(time_ms, effective_duration(args))))
    ELSE Fraction(time_ms, effective_duration(args))

\* The call is entered, the probe done: compress starts ffmpeg, convert_to_gif
\* its palette pass first.  _process_job passes a trim window to the
\* conversions only (watcher.py 210-238); job.progress is 0.0 (watcher.py 41).
TransInit ==
    /\ PipelineIdle
    /\ ConvIdle
    /\ FineIdle
    /\ \E mode \in Modes, duration \in Seconds :
       \E start, end \in IF mode = "compress" THEN {Absent} ELSE Seconds \cup {Absent} :
          /\ tc_args = [mode |-> mode, start |-> start, end |-> end, duration |-> duration]
          /\ tc_pc = IF mode = "convert_to_gif" THEN "palette" ELSE "stream"
    /\ tc_progress = Rat(0, 1)
    /\ tc_last_update = FALSE
    /\ tc_outcome = Absent
    /\ tc_palette = FALSE

\* convert_to_gif, pass 1 (compress.py 384-394): ffmpeg writes the palette
\* file; subprocess.run with check=True raises CalledProcessError, which
\* holds the exit code and the captured stderr, when ffmpeg fails, whatever it
\* has written by then; else on_progress(0.3).
PalettePass ==
    /\ tc_pc = "palette"
    /\ \E rc \in ExitCodes :
          IF rc # 0
             THEN /\ tc_outcome' = [type |-> "CalledProcessError", returncode |-> rc,
                                    stderr |-> Stderr]
                  /\ tc_pc' = "raised"
                  /\ tc_palette' \in BOOLEAN
                  /\ UNCHANGED tc_progress
             ELSE /\ tc_progress' = Rat(3, 10)
                  /\ tc_pc' = "stream"
                  /\ tc_palette' = TRUE
                  /\ UNCHANGED tc_outcome
    /\ UNCHANGED <<tc_args, tc_last_update>>
    /\ UNCHANGED <<pipelineVars, convVars, fineVars>>

\* One out_time_ms line read from the progress stream (compress.py 301-311,
\* 423-433, 540-549).  The first value is always passed on, last_update being
\* 0; a later one when more than 0.1 s have passed.  on_progress stores the
\* value in job.progress (watcher.py 198-201).
ProgressLine ==
    /\ tc_pc = "stream"
    /\ \E time_ms \in OutTimes, late \in BOOLEAN :
          IF Prog(tc_args, time_ms) # <<"ZeroDivisionError">> /\ (late \/ ~tc_last_update)
             THEN /\ tc_progress' = Prog(tc_args, time_ms)
                  /\ tc_last_update' = TRUE
             ELSE UNCHANGED <<tc_progress, tc_last_update>>
    /\ UNCHANGED <<tc_args, tc_pc, tc_outcome, tc_palette>>
    /\ UNCHANGED <<pipelineVars, convVars, fineVars>>

\* ProcessExit with the palette removed on the way to the result only, after
\* the test of the exit code.
ProcessExitKeepsPaletteOnFailure ==
    /\ tc_pc = "stream"
    /\ \E rc \in ExitCodes :
          IF rc # 0
             THEN /\ tc_outcome' = [type |-> "RuntimeError",
                                    message |-> <<"ffmpeg failed: ", Stderr>>]
                  /\ tc_pc' = "raised"
                  /\ UNCHANGED tc_palette
             ELSE /\ tc_outcome' = [type |-> "CompressionResult",
                                    original_size |-> "input_path.stat().st_size",
                                    compressed_size |-> "output_path.stat().st_size"]
                  /\ tc_pc' = "returned"
                  /\ tc_palette' = FALSE
    /\ UNCHANGED <<tc_args, tc_progress, tc_last_update>>
    /\ UNCHANGED <<pipelineVars, convVars, fineVars>>

\* ffmpeg exits (compress.py 313-325, 435-453, 551-566): convert_to_gif
\* removes the palette file, if there is one (compress.py 438); then
\* RuntimeError with the text of stderr in its message for an exit code other
\* than 0, else a CompressionResult with the sizes of the two files.
ProcessExit ==
    /\ tc_pc = "stream"
    /\ tc_palette' = FALSE
    /\ \E rc \in ExitCodes :
          IF rc # 0
             THEN /\ tc_outcome' = [type |-> "RuntimeError",
                                    message |-> <<"ffmpeg failed: ", Stderr>>]
                  /\ tc_pc' = "raised"
             ELSE /\ tc_outcome' = [type |-> "CompressionResult",
                                    original_size |-> "input_path.stat().st_size",
                                    compressed_size |-> "output_path.stat().st_size"]
                  /\ tc_pc' = "returned"
    /\ UNCHANGED <<tc_args, tc_progress, tc_last_update>>
    /\ UNCHANGED <<pipelineVars, convVars, fineVars>>

TransNext ==
    \/ PalettePass
    \/ ProgressLine
    \/ ProcessExit

TranscodeSpec == TransInit /\ [][TransNext]_vars

\* ------------------------------------------- the handler, on any path
\* VideoHandler.VIDEO_EXTENSIONS (watcher.py 72)
VIDEO_EXTENSIONS ==
    {<<".", "m", "p", "4">>, <<".", "m", "o", "v">>, <<".", "a", "v", "i">>,
     <<".", "m", "k", "v">>, <<".", "w", "e", "b", "m">>, <<".", "m", "4", "v">>,
     <<".", "g", "i", "f">>}

\* VideoHandler._is_video (watcher.py 81-82), and the test of scan_inbox
\* (watcher.py 260)
is_video(path) == Lower(PathSuffix(path)) \in VIDEO_EXTENSIONS

\* The names that appear in the inbox: a.MP4, c.txt and .mp4 (a hidden file
\* without a suffix), each of them as a regular file or as a directory.
HandlerFiles ==
    {<<"a", ".", "M", "P", "4">>, <<"c", ".", "t", "x", "t">>, <<".", "m", "p", "4">>}
Kinds == {"video", "dir"}

\* start() has started the observer on an inbox holding anything (watcher.py
\* 265-270) and is about to scan it.
HandlerInit ==
    /\ inbox \in [HandlerFiles -> Kinds \cup {None}]
    /\ processingDir = [p \in HandlerFiles |-> None]
    /\ observer = TRUE
    /\ events = <<>>
    /\ seen = {}
    /\ stop_event = FALSE
    /\ jobs = <<>>
    /\ queue = <<>>
    /\ processing = FALSE
    /\ tpc = [t \in Threads |-> IF t = "main" THEN "iterdir" ELSE "idle"]
    /\ tpath = [t \in Threads |-> None]
    /\ tjob = [t \in Threads |-> 0]
    /\ scanTodo = {}
    /\ wpc = [w \in Workers |-> "dead"]
    /\ wjob = [w \in Workers |-> 0]
    /\ added = {}
    /\ notified = [p \in HandlerFiles |-> [event |-> 0, scan |-> 0]]
    /\ calls = [j \in 1..MaxJobs |-> <<>>]
    /\ discarded = {}
    /\ lock = <<>>
    /\ io = <<>>
    /\ ConvIdle
    /\ TransIdle

\* What the actions of the handler leave alone.
handlerFrame == <<processingDir, observer, stop_event, processing, tjob, wpc, wjob,
                  calls, lock, io, convVars, transVars>>

\* A file or a directory is created in, or moved into, the inbox: the observer
\* is sent the event, which tells a directory from a file (watcher.py 95-101).
Created(p, kind) ==
    /\ ~Exists(inbox, p)
    /\ Len(events) < MaxPending
    /\ inbox' = [inbox EXCEPT ![p] = kind]
    /\ events' = Append(events, [src_path |-> p, is_directory |-> kind = "dir"])
    /\ UNCHANGED <<seen, jobs, queue, tpc, tpath, scanTodo, added, notified, discarded>>
    /\ UNCHANGED handlerFrame

\* A file or a directory is taken out of the inbox.
Removed(p) ==
    /\ Exists(inbox, p)
    /\ inbox' = [inbox EXCEPT ![p] = None]
    /\ UNCHANGED <<events, seen, jobs, queue, tpc, tpath, scanTodo, added, notified,
                   discarded>>
    /\ UNCHANGED handlerFrame

\* _on_new_file called with a path (watcher.py 131-161): a job is made of it,
\* whatever the path is, appended to both lists, and on_job_added called.
\* The worker is not run here.
OnNewFile(p) ==
    /\ Len(jobs) < MaxJobs
    /\ jobs' = Append(jobs, NewJob(p, IF inbox[p] = "video" THEN "VideoInfo" ELSE None))
    /\ queue' = Append(queue, Len(jobs) + 1)
    /\ added' = added \cup {Len(jobs) + 1}

\* on_created / on_moved (watcher.py 95-101) and _handle_file up to the sleep
\* (watcher.py 84-90): the event of a directory, of a path without a video
\* extension and of a path already seen is dropped.
OnCreated ==
    /\ tpc["observer"] = "idle"
    /\ events # <<>>
    /\ events' = Tail(events)
    /\ LET e == Head(events)
       IN IF e.is_directory \/ ~is_video(e.src_path) \/ e.src_path \in seen
             THEN UNCHANGED <<tpc, tpath>>
             ELSE /\ tpc' = [tpc EXCEPT !["observer"] = "sleep"]
                  /\ tpath' = [tpath EXCEPT !["observer"] = e.src_path]
    /\ UNCHANGED <<inbox, seen, jobs, queue, scanTodo, added, notified, discarded>>
    /\ UNCHANGED handlerFrame

\* AfterSleep with the path recorded as seen before the test of its
\* existence.
AfterSleepSeenFirst ==
    /\ tpc["observer"] = "sleep"
    /\ LET p == tpath["observer"]
       IN /\ seen' = seen \cup {p}
          /\ IF Exists(inbox, p)
                THEN /\ notified' = [notified EXCEPT ![p].event = @ + 1]
                     /\ OnNewFile(p)
                     /\ UNCHANGED discarded
                ELSE /\ discarded' = discarded \cup {p}
                     /\ UNCHANGED <<notified, jobs, queue, added>>
    /\ tpc' = [tpc EXCEPT !["observer"] = "idle"]
    /\ tpath' = [tpath EXCEPT !["observer"] = None]
    /\ UNCHANGED <<inbox, events, scanTodo>>
    /\ UNCHANGED handlerFrame

\* _handle_file after the sleep (watcher.py 90-93): a path that still exists
\* is recorded as seen and handed to on_new_file; one that does not is
\* dropped.
AfterSleep ==
    /\ tpc["observer"] = "sleep"
    /\ LET p == tpath["observer"]
       IN IF Exists(inbox, p)
             THEN /\ seen' = seen \cup {p}
                  /\ notified' = [notified EXCEPT ![p].event = @ + 1]
                  /\ OnNewFile(p)
                  /\ UNCHANGED discarded
             ELSE /\ discarded' = discarded \cup {p}
                  /\ UNCHANGED <<seen, notified, jobs, queue, added>>
    /\ tpc' = [tpc EXCEPT !["observer"] = "idle"]
    /\ tpath' = [tpath EXCEPT !["observer"] = None]
    /\ UNCHANGED <<inbox, events, scanTodo>>
    /\ UNCHANGED handlerFrame

\* scan_inbox, the directory listing (watcher.py 259)
Iterdir ==
    /\ tpc["main"] = "iterdir"
    /\ scanTodo' = {p \in HandlerFiles : Exists(inbox, p)}
    /\ tpc' = [tpc EXCEPT !["main"] = "scan"]
    /\ UNCHANGED <<inbox, events, seen, jobs, queue, tpath, added, notified, discarded>>
    /\ UNCHANGED handlerFrame

\* scan_inbox, one turn of its loop (watcher.py 259-261): _on_new_file is
\* called on an entry whose name has a video extension.
ScanEntry ==
    /\ tpc["main"] = "scan"
    /\ IF scanTodo = {}
          THEN /\ tpc' = [tpc EXCEPT !["main"] = "idle"]
               /\ UNCHANGED <<scanTodo, notified, jobs, queue, added>>
          ELSE \E p \in scanTodo :
                  /\ scanTodo' = scanTodo \ {p}
                  /\ IF is_video(p)
                        THEN /\ notified' = [notified EXCEPT ![p].scan = @ + 1]
                             /\ OnNewFile(p)
                        ELSE UNCHANGED <<notified, jobs, queue, added>>
                  /\ UNCHANGED tpc
    /\ UNCHANGED <<inbox, events, seen, tpath, discarded>>
    /\ UNCHANGED handlerFrame

HandlerNext ==
    \/ \E p \in HandlerFiles, kind \in Kinds : Created(p, kind)
    \/ \E p \in HandlerFiles : Removed(p)
    \/ OnCreated
    \/ AfterSleep
    \/ Iterdir
    \/ ScanEntry

HandlerSpec == HandlerInit /\ [][HandlerNext]_vars

\* ------------------------------------------------ the lock, step by step
\* The scheduler with the acquisition of self._lock (watcher.py 125) as a
\* step: a thread at "lock_append", "lock_wake" or "lock_loop" waits for the
\* lock at the with statement of watcher.py 156, 167 or 178, and a thread at
\* "append", "wake" or "loop" is inside that with block.  The file system is
\* left out: paths arrive, renames succeed.
Free == <<>>
Holder(kind, id) == <<kind, id>>

LockInit ==
    /\ PipelineIdle
    /\ ConvIdle
    /\ TransIdle
    /\ discarded = {}
    /\ lock = Free
    /\ io = <<>>

lockFrame == <<fsVars, observer, events, seen, stop_event, scanTodo, notified,
               discarded, io, convVars, transVars>>

\* _on_new_file is entered with a path, by the handler or by the scan, and
\* runs up to the with statement (watcher.py 131-156).
EnterOnNewFile(t) ==
    /\ tpc[t] = "idle"
    /\ Len(jobs) + Cardinality({u \in Threads : tpc[u] \in {"lock_append", "append"}}) < MaxJobs
    /\ \E p \in Paths : tpath' = [tpath EXCEPT ![t] = p]
    /\ tpc' = [tpc EXCEPT ![t] = "lock_append"]
    /\ UNCHANGED <<jobs, queue, processing, tjob, workerVars, added, calls, lock>>
    /\ UNCHANGED lockFrame

\* with self._lock, entered by an enqueuing thread (watcher.py 156, 167)
AcquireLock(t) ==
    /\ tpc[t] \in {"lock_append", "lock_wake"}
    /\ lock = Free
    /\ lock' = Holder("thread", t)
    /\ tpc' = [tpc EXCEPT ![t] = IF tpc[t] = "lock_append" THEN "append" ELSE "wake"]
    /\ UNCHANGED <<jobs, queue, processing, tpath, tjob, workerVars, added, calls>>
    /\ UNCHANGED lockFrame

\* with self._lock, entered by the worker (watcher.py 178)
WorkerAcquireLock(w) ==
    /\ wpc[w] = "lock_loop"
    /\ lock = Free
    /\ lock' = Holder("worker", w)
    /\ wpc' = [wpc EXCEPT ![w] = "loop"]
    /\ UNCHANGED <<jobs, queue, processing, threadVars, wjob, added, calls>>
    /\ UNCHANGED lockFrame

\* _on_new_file inside the with block (watcher.py 156-158): the job is
\* appended to both lists and the lock released.
LockedAppend(t) ==
    /\ tpc[t] = "append"
    /\ jobs' = Append(jobs, NewJob(tpath[t], "VideoInfo"))
    /\ queue' = Append(queue, Len(jobs) + 1)
    /\ tjob' = [tjob EXCEPT ![t] = Len(jobs) + 1]
    /\ lock' = Free
    /\ tpc' = [tpc EXCEPT ![t] = "added"]
    /\ UNCHANGED <<processing, tpath, workerVars, added, calls>>
    /\ UNCHANGED lockFrame

\* _on_new_file, the on_job_added callback (watcher.py 160-161), up to the
\* with statement of _maybe_start_processing (watcher.py 167).
UnlockedAdded(t) ==
    /\ tpc[t] = "added"
    /\ added' = added \cup {tjob[t]}
    /\ calls' = Called("on_job_added", tjob[t], jobs[tjob[t]].status)
    /\ tpc' = [tpc EXCEPT ![t] = "lock_wake"]
    /\ UNCHANGED <<jobs, queue, processing, tpath, tjob, workerVars, lock>>
    /\ UNCHANGED lockFrame

\* _maybe_start_processing inside the with block (watcher.py 167-170), and
\* the thread started once the lock is released (watcher.py 172-173).
LockedMaybeStart(t) ==
    /\ tpc[t] = "wake"
    /\ IF processing \/ queue = <<>>
          THEN UNCHANGED <<processing, wpc>>
          ELSE /\ \E w \in Workers : wpc[w] = "dead"
               /\ processing' = TRUE
               /\ wpc' = [wpc EXCEPT ![FreeWorker] = "lock_loop"]
    /\ lock' = Free
    /\ tpc' = [tpc EXCEPT ![t] = "idle"]
    /\ tpath' = [tpath EXCEPT ![t] = None]
    /\ tjob' = [tjob EXCEPT ![t] = 0]
    /\ UNCHANGED <<jobs, queue, wjob, added, calls>>
    /\ UNCHANGED lockFrame

\* LockedProcessQueue with _process_job called inside the with block: the
\* lock is not released when a job was popped.
LockedProcessQueueKeepsLock(w) ==
    /\ wpc[w] = "loop"
    /\ IF queue = <<>> \/ stop_event
          THEN /\ processing' = FALSE
               /\ wpc' = [wpc EXCEPT ![w] = "dead"]
               /\ lock' = Free
               /\ UNCHANGED <<queue, wjob>>
          ELSE /\ wjob' = [wjob EXCEPT ![w] = Head(queue)]
               /\ queue' = Tail(queue)
               /\ wpc' = [wpc EXCEPT ![w] = "picked"]
               /\ UNCHANGED <<processing, lock>>
    /\ UNCHANGED <<jobs, threadVars, added, calls>>
    /\ UNCHANGED lockFrame

\* _process_queue inside the with block (watcher.py 178-182): the flag is
\* cleared and the thread ends, or the head of the queue is popped; the lock
\* is released either way, before _process_job is called (watcher.py 184).
LockedProcessQueue(w) ==
    /\ wpc[w] = "loop"
    /\ IF queue = <<>> \/ stop_event
          THEN /\ processing' = FALSE
               /\ wpc' = [wpc EXCEPT ![w] = "dead"]
               /\ UNCHANGED <<queue, wjob>>
          ELSE /\ wjob' = [wjob EXCEPT ![w] = Head(queue)]
               /\ queue' = Tail(queue)
               /\ wpc' = [wpc EXCEPT ![w] = "picked"]
               /\ UNCHANGED processing
    /\ lock' = Free
    /\ UNCHANGED <<jobs, threadVars, added, calls>>
    /\ UNCHANGED lockFrame

\* _process_job up to the transcode (watcher.py 188-201): the status set,
\* the on_job_updated callback, the rename.
UnlockedBegin(w) ==
    /\ wpc[w] = "picked"
    /\ jobs' = [jobs EXCEPT ![wjob[w]].status = PROCESSING,
                            ![wjob[w]].input_path.dir = "processing"]
    /\ calls' = Called("on_job_updated", wjob[w], PROCESSING)
    /\ wpc' = [wpc EXCEPT ![w] = "transcode"]
    /\ UNCHANGED <<queue, processing, threadVars, wjob, added, lock>>
    /\ UNCHANGED lockFrame

\* _process_job, the transcode call returning or raising (watcher.py
\* 204-250).
UnlockedTranscode(w) ==
    /\ wpc[w] = "transcode"
    /\ \/ jobs' = [jobs EXCEPT ![wjob[w]].result = "CompressionResult",
                                ![wjob[w]].status = DONE,
                                ![wjob[w]].progress = 100]
       \/ jobs' = Except(wjob[w], "RuntimeError")
    /\ wpc' = [wpc EXCEPT ![w] = "notify"]
    /\ UNCHANGED <<queue, processing, threadVars, wjob, added, calls, lock>>
    /\ UNCHANGED lockFrame

\* _process_job, the on_job_done callback (watcher.py 252-255), and back to
\* the with statement of _process_queue (watcher.py 177-178).
UnlockedEnd(w) ==
    /\ wpc[w] = "notify"
    /\ calls' = Called("on_job_done", wjob[w], jobs[wjob[w]].status)
    /\ wpc' = [wpc EXCEPT ![w] = "lock_loop"]
    /\ wjob' = [wjob EXCEPT ![w] = 0]
    /\ UNCHANGED <<jobs, queue, processing, threadVars, added, lock>>
    /\ UNCHANGED lockFrame

LockNext ==
    \/ \E t \in Threads : EnterOnNewFile(t)
    \/ \E t \in Threads : AcquireLock(t)
    \/ \E w \in Workers : WorkerAcquireLock(w)
    \/ \E t \in Threads : LockedAppend(t)
    \/ \E t \in Threads : UnlockedAdded(t)
    \/ \E t \in Threads : LockedMaybeStart(t)
    \/ \E w \in Workers : LockedProcessQueue(w)
    \/ \E w \in Workers : UnlockedBegin(w)
    \/ \E w \in Workers : UnlockedTranscode(w)
    \/ \E w \in Workers : UnlockedEnd(w)

LockSpec == LockInit /\ [][LockNext]_vars

\* A thread that is inside a with block leaves it, a callback returns, and a
\* thread that waits for a lock which is free again and again gets it.  A
\* transcode may take for ever.
FairLockSpec ==
    /\ LockSpec
    /\ \A t \in Threads :
          /\ SF_vars(AcquireLock(t))
          /\ WF_vars(LockedAppend(t) \/ UnlockedAdded(t) \/ LockedMaybeStart(t))
    /\ \A w \in Workers :
          /\ SF_vars(WorkerAcquireLock(w))
          /\ WF_vars(LockedProcessQueue(w) \/ UnlockedBegin(w) \/ UnlockedEnd(w))

\* ------------------------------------------------------------ properties
JobIds == 1..Len(jobs)
Status(j) == jobs[j].status
Terminal(j) == Status(j) \in {DONE, FAILED}
InQueue(j) == \E i \in 1..Len(queue) : queue[i] = j
\* The workers inside _process_job.
InProcessJob == {w \in Workers : wpc[w] \in {"picked", "rename", "transcode", "cleanup", "notify"}}

\* C1: in every reachable state at most one job has status PROCESSING and at
\* most one worker thread is inside _process_job.
C1_AtMostOneProcessing ==
    /\ Cardinality({j \in JobIds : Status(j) = PROCESSING}) <= 1
    /\ Cardinality(InProcessJob) <= 1

\* C1 witness: a job is PROCESSING while a second one waits in the queue and
\* its enqueuer is about to call _maybe_start_processing.
C1_Witness ==
    /\ \E j \in JobIds : Status(j) = PROCESSING
    /\ queue # <<>>
    /\ \E t \in Threads : tpc[t] = "wake"

\* C2: jobs are picked up in arrival order: the pending queue lists jobs in
\* the order of the job list, and a job has left QUEUED only when every job
\* appended before it has reached DONE or FAILED.
C2_Fifo ==
    /\ \A i, k \in 1..Len(queue) : i < k => queue[i] < queue[k]
    /\ \A a, b \in JobIds : (a < b /\ Status(b) # QUEUED) => Terminal(a)

\* C2 witness: the second job is PROCESSING after the first reached its end.
C2_Witness ==
    /\ Len(jobs) >= 2
    /\ Terminal(1)
    /\ Status(2) = PROCESSING

\* C3 (as claimed): a status changes only along QUEUED -> PROCESSING -> DONE
\* or QUEUED -> PROCESSING -> FAILED; DONE and FAILED are never left.
C3_StatusTransitions ==
    [][\A j \in JobIds :
          \/ jobs'[j].status = jobs[j].status
          \/ <<jobs[j].status, jobs'[j].status>> \in
                {<<QUEUED, PROCESSING>>, <<PROCESSING, DONE>>, <<PROCESSING, FAILED>>}]_vars

\* C4 (as claimed): result is set only on a DONE job, error only on a FAILED
\* job, and a DONE or FAILED job has exactly one of the two set.
C4_ResultXorError ==
    \A j \in JobIds :
       /\ jobs[j].result # None => Status(j) = DONE
       /\ jobs[j].error # None => Status(j) = FAILED
       /\ Terminal(j) => ((jobs[j].result # None) # (jobs[j].error # None))

\* C5 (as claimed): a FAILED job carries a non-empty error string, and its
\* worker goes on to the next turn of the loop.
C5_FailedHasMessage ==
    \A j \in JobIds :
       Status(j) = FAILED =>
          /\ jobs[j].error \notin {None, ""}
          /\ \A w \in Workers : wjob[w] = j => wpc[w] = "notify"

\* C6: within one session (one handler) the handler calls on_new_file at most
\* once per path, and its seen set only grows.
C6_NotifiedOnce ==
    /\ [](\A p \in Paths : notified[p].event <= 1)
    /\ [][(observer /\ observer') => seen \subseteq seen']_vars

\* C6 witness: the path was notified in this session, its job is DONE, the
\* file was dropped again and the event for it dispatched without a second
\* call of on_new_file.
C6_Witness ==
    \E p \in Paths :
       /\ observer
       /\ p \in seen
       /\ notified[p] = [event |-> 1, scan |-> 0]
       /\ Len(jobs) = 1
       /\ Status(1) = DONE
       /\ Exists(inbox, p)
       /\ events = <<>>
       /\ tpc["observer"] = "idle"

\* C7 (as claimed): in one session on_new_file is called, and a Job created,
\* at most once per path, counting the start-up scan and the handler together.
C7_OncePerPath ==
    \A p \in Paths : notified[p].event + notified[p].scan <= 1

C10_ProbeFailureEnqueues ==
    [][\A t \in Threads :
          /\ (tpc[t] = "append" /\ tpc'[t] # "append"
                 /\ probe_video(tpath[t], inbox) # "VideoInfo") =>
                /\ jobs' = Append(jobs, [NewJob(tpath[t], None) EXCEPT !.status = QUEUED])
                /\ queue' = Append(queue, Len(jobs'))
                /\ tpc'[t] = "added"
                /\ tjob'[t] = Len(jobs')
          /\ (tpc[t] = "added" /\ tpc'[t] # "added") =>
                /\ tjob[t] \in added'
                /\ tpc'[t] = "wake"
          /\ (tpc[t] = "wake" /\ tpc'[t] # "wake" /\ ~processing /\ queue # <<>>) =>
                /\ processing'
                /\ \E w \in Workers : wpc[w] = "dead" /\ wpc'[w] = "loop"]_vars

\* C10 witness: a job whose probe failed is in the job list without info,
\* on_job_added was called for it and the worker it woke has popped it.
C10_Witness ==
    \E j \in JobIds :
       /\ jobs[j].info = None
       /\ j \in added
       /\ processing
       /\ \E w \in Workers : wjob[w] = j

\* ----------------------------------------- properties of the convention
CJobIds == 1..Len(cjobs)
LowStem(j) == Lower(PathStem(cjobs[j].name))
PresetSuffixes(j) == {i \in 1..Len(PRESETS) : EndsWith(LowStem(j), <<"-">> \o PRESETS[i])}
Occurrences(s, pat) == Cardinality({i \in 1..Len(s) : At(s, i, pat)})
OutSuffix == <<"-", "o", "u", "t">> \o Mp4

\* C11 (as claimed): a job whose filename ends in no preset suffix gets the
\* configured default preset; of the scenario's files, a-social.mp4 resolves
\* to preset social, b-gif-2-5.mp4 to format gif with start 2 and end 5, and
\* c.mp4 to the configured default with no special format.
C11_ScenarioResolution ==
    \A j \in CJobIds :
       /\ PresetSuffixes(j) = {} => cjobs[j].preset = config_default
       /\ cjobs[j].name = FileA => cjobs[j].preset = Social
       /\ cjobs[j].name = FileB =>
             /\ cjobs[j].special_format = Gif
             /\ cjobs[j].start_time = Rat(2, 1)
             /\ cjobs[j].end_time = Rat(5, 1)
       /\ cjobs[j].name = FileC =>
             /\ cjobs[j].preset = config_default
             /\ cjobs[j].special_format = Absent

\* C15 (as claimed): for a filename whose stem ends, in any case, in
\* -<name> of a registered preset, the detected preset is that one and the
\* output name derived for it contains -<name> once.
C15_SuffixOnce ==
    \A j \in CJobIds : \A i \in PresetSuffixes(j) :
       /\ cjobs[j].preset = PRESETS[i]
       /\ cjobs[j].cli_output # Absent =>
             Occurrences(Lower(cjobs[j].cli_output), <<"-">> \o PRESETS[i]) = 1

\* C15 (amended): the detected preset is the one of the suffix, and the
\* output name is the stem with that suffix cut off followed by
\* -<name>-out.mp4, so that it contains -<name> as often as the stem does:
\* once when the stem carries the suffix once.
C15_SuffixNotRepeated ==
    \A j \in CJobIds : \A i \in PresetSuffixes(j) :
       LET stem == PathStem(cjobs[j].name)
           suffix == <<"-">> \o PRESETS[i]
       IN /\ cjobs[j].preset = PRESETS[i]
          /\ cjobs[j].cli_output # Absent =>
                /\ cjobs[j].cli_output =
                      SubSeq(stem, 1, Len(stem) - Len(suffix)) \o suffix \o OutSuffix
                /\ Occurrences(Lower(cjobs[j].cli_output), suffix) =
                      Occurrences(Lower(stem), suffix)

\* C15 witness: clip-Web.mp4 was given the preset web and the output name
\* clip-web-out.mp4.
C15_Witness ==
    \E j \in CJobIds :
       /\ cjobs[j].name = Base \o <<"-", "W", "e", "b">> \o Mp4
       /\ cjobs[j].preset = Web
       /\ cjobs[j].cli_output = Base \o <<"-">> \o Web \o OutSuffix

\* Time tokens of the generated file names, with their values.
TrimTokens ==
    {<<<<"2">>, Rat(2, 1)>>, <<<<"5", "s">>, Rat(5, 1)>>, <<<<"1", "0", "s">>, Rat(10, 1)>>,
     <<<<"1", ".", "5", "s">>, Rat(3, 2)>>}
Trim(j) == <<cjobs[j].special_format, cjobs[j].start_time, cjobs[j].end_time>>
Marked(fmt) == Base \o <<"-">> \o fmt

\* C16: parse_trim_from_filename returns (gif, 5, 10) for clip-gif-5s-10s.mp4,
\* (gif, 5, absent) for clip-gif-5s.mp4 and (gif, absent, absent) for
\* clip-gif.mp4; for either marker and any time tokens, a marker followed by
\* two tokens gives start and end, by one token the start only, and a bare
\* trailing marker neither.
C16_TrimExamples ==
    \A j \in CJobIds :
       /\ cjobs[j].name = Marked(Gif) \o <<"-", "5", "s", "-", "1", "0", "s">> \o Mp4 =>
             Trim(j) = <<Gif, Rat(5, 1), Rat(10, 1)>>
       /\ cjobs[j].name = Marked(Gif) \o <<"-", "5", "s">> \o Mp4 =>
             Trim(j) = <<Gif, Rat(5, 1), Absent>>
       /\ cjobs[j].name = Marked(Gif) \o Mp4 => Trim(j) = <<Gif, Absent, Absent>>
       /\ \A fmt \in SPECIAL_FORMATS :
             /\ cjobs[j].name = Marked(fmt) \o Mp4 => Trim(j) = <<fmt, Absent, Absent>>
             /\ \A a \in TrimTokens :
                   /\ cjobs[j].name = Marked(fmt) \o <<"-">> \o a[1] \o Mp4 =>
                         Trim(j) = <<fmt, a[2], Absent>>
                   /\ \A b \in TrimTokens :
                         cjobs[j].name = Marked(fmt) \o <<"-">> \o a[1] \o <<"-">> \o b[1] \o Mp4 =>
                            Trim(j) = <<fmt, a[2], b[2]>>

\* C16 witness: the job of clip-loop-1.5s-10s.mp4 has start 1.5 and end 10.
C16_Witness ==
    \E j \in CJobIds :
       /\ cjobs[j].name = Marked(Loop) \o <<"-", "1", ".", "5", "s", "-", "1", "0", "s">> \o Mp4
       /\ Trim(j) = <<Loop, Rat(3, 2), Rat(10, 1)>>

\* C17: parse_time gives N for N and Ns, 60*M+S for M:S and 3600*H+60*M+S
\* for H:M:S; "90", "90s", "1:30" and "0:01:30" all give 90.
C17_ParseTime ==
    seconds # NotCalled =>
       /\ time_str \in {<<"9", "0">>, <<"9", "0", "s">>, <<"1", ":", "3", "0">>,
                        <<"0", ":", "0", "1", ":", "3", "0">>} => seconds = Rat(90, 1)
       /\ \A n \in Numbers :
             /\ time_str \in {Plain(n), WithS(n)} => seconds = n[2]
             /\ \A m \in Numbers :
                   /\ time_str = MinSec(m, n) =>
                         seconds = RatAdd(RatMul(Rat(60, 1), m[2]), n[2])
                   /\ \A h \in Numbers :
                         time_str = HourMinSec(h, m, n) =>
                            seconds = RatAdd(RatMul(Rat(3600, 1), h[2]),
                                             RatAdd(RatMul(Rat(60, 1), m[2]), n[2]))

\* C17 witness: parse_time("0:01:30") returned 90.
C17_Witness ==
    /\ time_str = <<"0", ":", "0", "1", ":", "3", "0">>
    /\ seconds = Rat(90, 1)

\* The spellings of a marker in the generated file names.
Spellings(fmt) == IF fmt = Gif THEN {Gif, <<"G", "I", "F">>} ELSE {fmt}

\* C18 (as claimed): the output file of a watch-folder job is named
\* <stem-without-preset>-<preset>-out.mp4 for standard compression, with the
\* job's preset also when the filename carries no preset suffix, and
\* <stem>.gif or <stem>-loop.mp4 for gif and loop, with the marker and the
\* trim suffix after it cut off the stem.
C18_OutputNaming ==
    \A j \in CJobIds :
       cjobs[j].output # Absent =>
          LET stem == PathStem(cjobs[j].name)
              cut == IF PresetSuffixes(j) = {} THEN stem
                     ELSE SubSeq(stem, 1, Len(stem) - Len(cjobs[j].preset) - 1)
              ext(fmt) == IF fmt = Gif THEN <<".", "g", "i", "f">> ELSE <<"-">> \o Loop \o Mp4
          IN /\ cjobs[j].special_format = Absent =>
                   cjobs[j].output = cut \o <<"-">> \o cjobs[j].preset \o OutSuffix
             /\ \A fmt \in SPECIAL_FORMATS : \A m \in Spellings(fmt) :
                   /\ stem = Base \o <<"-">> \o m => cjobs[j].output = Base \o ext(fmt)
                   /\ \A a \in TrimTokens :
                         /\ stem = Base \o <<"-">> \o m \o <<"-">> \o a[1] =>
                               cjobs[j].output = Base \o ext(fmt)
                         /\ \A b \in TrimTokens :
                               stem = Base \o <<"-">> \o m \o <<"-">> \o a[1] \o <<"-">> \o b[1] =>
                                  cjobs[j].output = Base \o ext(fmt)

\* The special formats whose marker a stem carries: -<fmt> at its end or
\* -<fmt>- inside it.
Markers(j) ==
    {fmt \in SPECIAL_FORMATS :
        \/ EndsWith(LowStem(j), <<"-">> \o fmt)
        \/ Contains(LowStem(j), <<"-">> \o fmt \o <<"-">>)}

\* C19: a job whose filename carries a special-format marker has that format
\* as its mode and is run through the conversion of that format, whatever
\* preset suffix the filename has; a job without a marker has no special
\* format and is run through compress.
C19_FormatPriority ==
    \A j \in CJobIds :
       /\ Markers(j) # {} =>
             /\ cjobs[j].special_format \in Markers(j)
             /\ cjobs[j].ran # None =>
                   cjobs[j].ran = IF cjobs[j].special_format = Gif THEN "convert_to_gif"
                                  ELSE "convert_to_loop"
       /\ Markers(j) = {} =>
             /\ cjobs[j].special_format = Absent
             /\ cjobs[j].ran # None => cjobs[j].ran = "compress"

\* C19 witness: clip-gif-social.mp4, with the marker inside the stem and a
\* preset suffix at its end, was run through convert_to_gif, and a file
\* without a marker through compress.
C19_Witness ==
    \E j \in CJobIds :
       /\ cjobs[j].name = Marked(Gif) \o <<"-">> \o Social \o Mp4
       /\ cjobs[j].preset = Social
       /\ cjobs[j].ran = "convert_to_gif"

\* ------------------------------------- properties of the transcode call
\* C12 (as claimed): every value on_progress stores in job.progress lies in
\* [0, 1], whatever integer follows out_time_ms=, whatever the trim window and
\* the probed duration, in all three modes.
C12_ProgressInRange ==
    /\ RatLe(Rat(0, 1), tc_progress)
    /\ RatLe(tc_progress, Rat(1, 1))

\* C14 (as claimed): a call whose ffmpeg exits with a code other than 0 ends
\* in a failure that carries that exit code and what ffmpeg wrote to stderr,
\* and returns no result; a call whose ffmpeg exits with 0 returns a result
\* with the sizes of the input and of the output.
C14_ExitCodeReported ==
    /\ tc_pc = "raised" =>
          /\ tc_outcome.type # "CompressionResult"
          /\ "returncode" \in DOMAIN tc_outcome /\ tc_outcome.returncode # 0
          /\ \/ "stderr" \in DOMAIN tc_outcome /\ tc_outcome.stderr = Stderr
             \/ "message" \in DOMAIN tc_outcome /\ tc_outcome.message[2] = Stderr
    /\ tc_pc = "returned" =>
          /\ tc_outcome.type = "CompressionResult"
          /\ {"original_size", "compressed_size"} \subseteq DOMAIN tc_outcome

\* ------------------------------------------- properties of the callbacks
Count(log, cb) == Cardinality({i \in 1..Len(log) : log[i].cb = cb})
\* The threads that are inside _on_new_file, and the workers that are inside
\* _process_job, for job j
Enqueuing(j) == {t \in Threads : tjob[t] = j /\ tpc[t] = "added"}
Working(j) == {w \in Workers : wjob[w] = j}

\* C13 (as claimed): on_job_added is called once for a job, when it is
\* created and QUEUED; on_job_updated is called when the job becomes
\* PROCESSING; on_job_done is called once for a job that was picked up, with
\* the job DONE or FAILED, and no callback is called with the job after it.
C13_NotifiedOnEveryTransition ==
    \A j \in JobIds :
       LET log == calls[j]
       IN /\ Count(log, "on_job_added") = IF Enqueuing(j) = {} THEN 1 ELSE 0
          /\ \A i \in 1..Len(log) :
                /\ log[i].cb = "on_job_added" => log[i].status = QUEUED
                /\ log[i].cb = "on_job_done" =>
                      log[i].status \in {DONE, FAILED} /\ i = Len(log)
          /\ Status(j) # QUEUED =>
                \E i \in 1..Len(log) : log[i] = [cb |-> "on_job_updated", status |-> PROCESSING]
          /\ Count(log, "on_job_done") =
                IF Terminal(j) /\ Working(j) = {} THEN 1 ELSE 0

\* C20 (as claimed): the worker thread never ends with the flag _processing
\* left set: while the flag is set a worker thread is alive, so that queued
\* jobs are popped.
C20_WorkerAliveWhileFlagSet ==
    processing => \E w \in Workers : wpc[w] # "dead"

\* C21 (as claimed): for every job the first callback called with it is
\* on_job_added, and the job is QUEUED when on_job_added is called, also when
\* a worker is running while the job is enqueued.
C21_AddedFirst ==
    \A j \in JobIds :
       LET log == calls[j]
       IN /\ log # <<>> => log[1].cb = "on_job_added"
          /\ \A i \in 1..Len(log) : log[i].cb = "on_job_added" => log[i].status = QUEUED

\* The errors of a rename that failed, and of a probe that failed
RenameErrors == {ExcStr("FileNotFoundError")}
ProbeErrors == {ExcStr("StopIteration"), ExcStr("KeyError")}

\* C22 (as claimed): whenever a callback is called with a job that is
\* PROCESSING, the input path of the job is in the processing folder already,
\* and no callback is ever called with status PROCESSING for a job whose
\* rename failed.
C22_RenamedBeforeProcessing ==
    /\ [][\A j \in 1..MaxJobs :
             (calls'[j] # calls[j] /\ calls'[j][Len(calls'[j])].status = PROCESSING) =>
                jobs'[j].input_path.dir = "processing"]_vars
    /\ [](\A j \in JobIds :
             jobs[j].error \in RenameErrors =>
                \A i \in 1..Len(calls[j]) : calls[j][i].status # PROCESSING)

\* C24 (as claimed): a job whose probe failed when it was enqueued, and so
\* has no info, is transcoded without it: it never becomes FAILED with the
\* exception of a probe as its error.
C24_ProbeFailureNotFatal ==
    \A j \in JobIds :
       (jobs[j].info = None /\ Status(j) = FAILED) => jobs[j].error \notin ProbeErrors

\* C29 (as claimed): a time token after a marker may also be written M:S or
\* H:M:S, and parse_trim_from_filename gives its value in seconds: 1:30 as a
\* start token gives start = 90, and likewise for a start and an end token.
C29_ColonTokens ==
    \A j \in CJobIds : \A fmt \in SPECIAL_FORMATS : \A a \in ColonTokens :
       /\ cjobs[j].name = Marked(fmt) \o <<"-">> \o a[1] \o Mp4 =>
             Trim(j) = <<fmt, a[2], Absent>>
       /\ \A b \in ColonTokens :
             cjobs[j].name = Marked(fmt) \o <<"-">> \o a[1] \o <<"-">> \o b[1] \o Mp4 =>
                Trim(j) = <<fmt, a[2], b[2]>>

\* C30 (as claimed): the special format and the trim window of a job are
\* those the parser gives for its filename under every iteration order of
\* SPECIAL_FORMATS, also for a filename with a gif and a loop marker.
C30_ParserDeterministic ==
    \A j \in CJobIds : \A order \in FormatOrders :
       LET other == ConvJob(cjobs[j].name, order)
       IN Trim(j) = <<other.special_format, other.start_time, other.end_time>>

\* The second pass of convert_to_gif has ended.
SecondPassEnded ==
    /\ tc_pc \in {"raised", "returned"}
    /\ tc_args.mode = "convert_to_gif"
    /\ tc_outcome.type # "CalledProcessError"

\* C27: in gif mode, once the second pass has ended and the failure is raised
\* or the result returned, the scratch palette file is gone, whether ffmpeg
\* exited with code 0 or not.
C27_PaletteRemoved ==
    SecondPassEnded => ~tc_palette

\* C27 witness: the second pass exited with a code other than 0, the
\* RuntimeError is raised and the palette file is gone.
C27_Witness ==
    /\ SecondPassEnded
    /\ tc_outcome.type = "RuntimeError"
    /\ ~tc_palette

\* C28 (as claimed): in gif mode job.progress is 0.3 when the palette pass
\* has completed, and every value reported during the second pass lies in
\* [0.3, 1.0].
C28_GifProgress ==
    ((tc_pc = "stream" /\ tc_args.mode = "convert_to_gif") \/ SecondPassEnded) =>
       /\ ~tc_last_update => tc_progress = Rat(3, 10)
       /\ RatLe(Rat(3, 10), tc_progress)
       /\ RatLe(tc_progress, Rat(1, 1))

\* ------------------------------------------- properties of the handler
\* C25: the handler calls on_new_file with a path only when its wait is over,
\* and only if the path exists then; a path that does not is dropped without
\* a notification, a job or an entry in the seen set, and the seen set holds
\* notified paths only, so that a later event for the path is not filtered.
C25_Debounce ==
    /\ [][\A p \in DOMAIN notified :
             notified'[p].event # notified[p].event =>
                /\ tpc["observer"] = "sleep" /\ tpath["observer"] = p
                /\ Exists(inbox, p)
                /\ notified'[p].event = notified[p].event + 1
                /\ seen' = seen \cup {p}]_vars
    /\ [][(tpc["observer"] = "sleep" /\ tpc'["observer"] # "sleep"
               /\ ~Exists(inbox, tpath["observer"])) =>
                /\ notified' = notified
                /\ jobs' = jobs
                /\ seen' = seen]_vars
    /\ [](\A p \in seen : notified[p].event >= 1)

\* C25 witness: an event for a path was dropped because the path had
\* disappeared during the wait, and a later event for the same path was
\* notified.
C25_Witness ==
    \E p \in discarded :
       /\ p \in seen
       /\ notified[p].event = 1
       /\ \E j \in JobIds : jobs[j].input_path.name = p

\* C26 (as claimed): a job is made, by the handler or by the scan, of a path
\* only if the path has an extension of the allow-list, in any case, and is
\* no directory; the event of any other path changes nothing.
C26_OnlyVideoFiles ==
    /\ [][Len(jobs') > Len(jobs) =>
             LET p == jobs'[Len(jobs')].input_path.name
             IN is_video(p) /\ inbox[p] # "dir"]_vars
    /\ [][(events # <<>> /\ events' = Tail(events)
               /\ (Head(events).is_directory \/ ~is_video(Head(events).src_path))) =>
                UNCHANGED <<inbox, seen, jobs, queue, tpc, tpath, scanTodo, added,
                            notified, discarded>>]_vars

\* ---------------------------------------------- properties of the lock
\* C23: the lock is held only by a thread inside one of the three with
\* blocks, where the job list, the pending queue and the flag are read and
\* changed, never by a thread in a callback or in a transcode; so a thread
\* that enters _on_new_file gets its job appended and on_job_added called
\* even when a transcode in flight never returns.
C23_LockNotHeldOutside ==
    /\ [](/\ \A t \in Threads : lock = Holder("thread", t) => tpc[t] \in {"append", "wake"}
          /\ \A w \in Workers : lock = Holder("worker", w) => wpc[w] = "loop")
    /\ \A t \in Threads :
          (tpc[t] = "lock_append") ~> (tpc[t] = "lock_wake" /\ tjob[t] \in added)

\* C23 witness: while a worker is in the transcode of the first job, a second
\* job was appended and on_job_added called for it, and the lock is free.
C23_Witness ==
    /\ \E w \in Workers : wpc[w] = "transcode" /\ wjob[w] = 1
    /\ \E t \in Threads : tpc[t] = "lock_wake" /\ tjob[t] = 2 /\ 2 \in added
    /\ lock = Free

\* ------------------------------ a transcode call and its two pipes
\* compress, convert_to_gif (second pass) and convert_to_loop start ffmpeg
\* with stdout and stderr as pipes (compress.py 285-292, 406-413, 524-531),
\* read stdout line by line when a progress callback is given, then wait for
\* the exit and read stderr only after it, when the exit code is not 0.  A
\* pipe holds MaxPipe chunks; a write to a full pipe blocks the writer.
Streams == {"stdout", "stderr"}

\* What the external process writes before it exits, in order.
Scripts == UNION {[1..n -> Streams] : n \in 0..MaxChunks}

PipeInit ==
    /\ PipelineIdle
    /\ ConvIdle
    /\ TransIdle
    /\ discarded = <<>>
    /\ lock = <<>>
    /\ \E cb \in BOOLEAN, sc \in Scripts, code \in ExitCodes :
          io = [on_progress |-> cb, script |-> sc, returncode |-> code,
                exited |-> FALSE, stdout |-> 0, stderr |-> 0, pc |-> "popen"]

pipeFrame == <<pipelineVars, convVars, transVars, discarded, lock>>

\* subprocess.Popen returns (compress.py 285-292): the supervisor enters the
\* read loop when it has a callback (294), else goes to process.wait() (313).
Popen ==
    /\ io.pc = "popen"
    /\ io' = [io EXCEPT !.pc = IF io.on_progress THEN "readline" ELSE "wait"]
    /\ UNCHANGED pipeFrame

\* The external process writes its next chunk to stdout (-progress pipe:1)
\* or to stderr (its log), when that pipe has room.
ChildWrite ==
    /\ ~io.exited
    /\ io.script # <<>>
    /\ io[Head(io.script)] < MaxPipe
    /\ io' = [io EXCEPT ![Head(io.script)] = @ + 1, !.script = Tail(@)]
    /\ UNCHANGED pipeFrame

\* The external process has written everything and exits.
ChildExit ==
    /\ ~io.exited
    /\ io.script = <<>>
    /\ io' = [io EXCEPT !.exited = TRUE]
    /\ UNCHANGED pipeFrame

\* process.stdout.readline() (compress.py 297-299): a chunk of stdout is
\* taken, or at the end of the stream with the process gone the loop is left;
\* with stdout empty and the process alive the call blocks.
Readline ==
    /\ io.pc = "readline"
    /\ IF io.stdout > 0
          THEN io' = [io EXCEPT !.stdout = @ - 1]
          ELSE /\ io.exited
               /\ io' = [io EXCEPT !.pc = "wait"]
    /\ UNCHANGED pipeFrame

\* process.wait() (compress.py 313) returns when the process has exited; no
\* pipe is read meanwhile.
Wait ==
    /\ io.pc = "wait"
    /\ io.exited
    /\ io' = [io EXCEPT !.pc = IF io.returncode # 0 THEN "stderr" ELSE "returned"]
    /\ UNCHANGED pipeFrame

\* process.stderr.read() and the RuntimeError (compress.py 315-317).
ReadStderr ==
    /\ io.pc = "stderr"
    /\ io' = [io EXCEPT !.stderr = 0, !.pc = "raised"]
    /\ UNCHANGED pipeFrame

PipeNext ==
    \/ Popen
    \/ ChildWrite
    \/ ChildExit
    \/ Readline
    \/ Wait
    \/ ReadStderr

PipeSpec == PipeInit /\ [][PipeNext]_vars

\* Neither the operating system nor the interpreter stops a process or a
\* thread that can take a step.
FairPipeSpec ==
    /\ PipeSpec
    /\ WF_vars(Popen) /\ WF_vars(ChildWrite) /\ WF_vars(ChildExit)
    /\ WF_vars(Readline) /\ WF_vars(Wait) /\ WF_vars(ReadStderr)

\* ------------------------------------ properties of the files and lists
Name(j) == jobs[j].input_path.name
Dir(j) == jobs[j].input_path.dir
\* The workers at the end of _process_job, about to call on_job_done
AtEnd == {w \in Workers : wpc[w] = "notify"}

\* C32: the input path of a job changes only in the step in which its rename
\* succeeds, from the inbox to the processing folder under the same name, so
\* at most once; a QUEUED job has its inbox path, a failed rename, the
\* transcode and the completion leave the path alone.
C32_InputPathOnce ==
    /\ [][\A j \in JobIds :
             jobs'[j].input_path # jobs[j].input_path =>
                /\ Dir(j) = "inbox"
                /\ jobs'[j].input_path = [dir |-> "processing", name |-> Name(j)]
                /\ \E w \in Workers : wjob[w] = j /\ wpc[w] = "rename" /\ wpc'[w] = "transcode"
                /\ Exists(inbox, Name(j))
                /\ inbox'[Name(j)] = None
                /\ processingDir'[Name(j)] = inbox[Name(j)]]_vars
    /\ [][\A w \in Workers :
             (wpc[w] = "rename" /\ wpc'[w] = "transcode") =>
                jobs'[wjob[w]].input_path.dir = "processing"]_vars
    /\ [](\A j \in JobIds : Status(j) = QUEUED => Dir(j) = "inbox")

\* C32 witness: one job is FAILED by its rename with its inbox path, another
\* is DONE with its processing path.
C32_Witness ==
    /\ \E j \in JobIds : Status(j) = FAILED /\ Dir(j) = "inbox"
    /\ \E j \in JobIds : Status(j) = DONE /\ Dir(j) = "processing"

C34_AppendOnly ==
    [][/\ Len(jobs') >= Len(jobs)
       /\ Len(jobs') <= Len(jobs) + 1
       /\ \A j \in JobIds :
             /\ jobs'[j].input_path.name = Name(j)
             /\ jobs'[j].info = jobs[j].info]_vars

\* C34 witness: start() was called again after a stop() (no path was
\* notified in this session yet), and the two jobs of the earlier session are
\* in the list, one of them popped from the queue long ago.
C34_Witness ==
    /\ observer
    /\ \A p \in Paths : notified[p] = [event |-> 0, scan |-> 0]
    /\ Len(jobs) = 2
    /\ Terminal(1)
    /\ queue = <<2>>

\* C35 (as claimed): the pending queue holds jobs of the job list, each at
\* most once, and a job is in the pending queue exactly when it is QUEUED.
C35_QueueStatus ==
    /\ \A i \in 1..Len(queue) : queue[i] \in JobIds
    /\ \A i, k \in 1..Len(queue) : i # k => queue[i] # queue[k]
    /\ \A j \in JobIds : InQueue(j) <=> Status(j) = QUEUED

\* The jobs a worker has popped and not yet marked PROCESSING (between
\* watcher.py 182 and 188)
Popped == {wjob[w] : w \in {v \in Workers : wpc[v] = "picked"}}

\* C35 (amended): the pending queue holds jobs of the job list, each at most
\* once and each QUEUED; no PROCESSING, DONE or FAILED job is in the queue;
\* and a QUEUED job is in the queue or has just been popped by a
\* worker that has not yet set its status.
C35_QueueStatusOrPopped ==
    /\ \A i \in 1..Len(queue) : queue[i] \in JobIds /\ Status(queue[i]) = QUEUED
    /\ \A i, k \in 1..Len(queue) : i # k => queue[i] # queue[k]
    /\ \A j \in JobIds : Status(j) # QUEUED => ~InQueue(j)
    /\ \A j \in JobIds : Status(j) = QUEUED => (InQueue(j) \/ j \in Popped)
    /\ \A j \in Popped : Status(j) = QUEUED /\ ~InQueue(j)

\* C35 witness: job 1 is popped and QUEUED still, job 2 waits in the queue.
C35_Witness ==
    /\ Popped = {1}
    /\ Status(1) = QUEUED
    /\ queue = <<2>>

\* The first call of _on_new_file for its path since start(): a job of that
\* path that exists already was created before the last stop().
FirstOfSession(t) == notified[tpath[t]] = [event |-> 0, scan |-> 1]

\* C37 (as claimed): once start() has returned and no thread is inside
\* _on_new_file, while no stop is requested and the pending queue is not
\* empty a worker is alive; and the scan of a restart makes no job of a file
\* that has a QUEUED job left by the stop.
C37_RestartResumes ==
    /\ [](( /\ observer /\ ~stop_event
            /\ \A t \in Threads : tpc[t] \in {"idle", "sleep"}
            /\ queue # <<>>) =>
              \E w \in Workers : wpc[w] # "dead")
    /\ [][(tpc["main"] = "append" /\ FirstOfSession("main") /\ Len(jobs') > Len(jobs)) =>
             ~\E j \in JobIds : Status(j) = QUEUED /\ Name(j) = tpath["main"]]_vars

\* C36 (as claimed): two jobs of one session made of different files never
\* name the same output file in the done folder.
C36_DistinctOutputs ==
    \A j, k \in CJobIds :
       (/\ j # k
        /\ cjobs[j].name # cjobs[k].name
        /\ cjobs[j].output # Absent
        /\ cjobs[k].output # Absent) =>
          cjobs[j].output # cjobs[k].output

\* The external process is blocked writing to a full pipe
ChildBlocked ==
    /\ ~io.exited
    /\ io.script # <<>>
    /\ io[Head(io.script)] = MaxPipe

\* The supervisor is blocked on the external process: in readline with
\* stdout empty, or in wait
SupervisorBlocked ==
    /\ ~io.exited
    /\ \/ io.pc = "readline" /\ io.stdout = 0
       \/ io.pc = "wait"

\* C31 (as claimed): the supervisor and the external process are never
\* blocked on each other, and every transcode call returns or raises in the
\* end.
C31_TranscodeReturns ==
    /\ [](~(ChildBlocked /\ SupervisorBlocked))
    /\ <>(io.pc \in {"returned", "raised"})

====
